---- MODULE Spec2Model ----
(***************************************************************************)
(* mi-store: a storefront backend kept as several revisions of one Express *)
(* server.  The model follows the request handlers of the revisions:       *)
(*   "s3"  src/unnamed/part_005   (S3 object store, Stripe, admin session) *)
(*   "A"   src/mi-store/server.js lines 1-263   (Cloudinary, categories)   *)
(*   "B"   src/mi-store/server.js lines 265-562 (Cloudinary, 2025)         *)
(*   "v2"  src/unnamed/part_004   (Cloudinary, ratings)                    *)
(*   "p3"  src/unnamed/part_003   (Cloudinary, in-memory upload)           *)
(* One behaviour is a run of one revision: rev is chosen by Init and never *)
(* changes.  The catalog handlers are one action each; the webhook handler *)
(* is one action per await.                                                *)
(***************************************************************************)
EXTENDS Integers, Sequences, FiniteSets, Bags, TLC

\* ------------------------------------------------------------------ bounds
MaxApps == 2          \* rows the apps table may receive (SERIAL ids 1..MaxApps)
MaxClock == 1         \* the clock readings are 0..MaxClock
MaxAssets == 3        \* Cloudinary uploads one behaviour may make
MaxPayments == 2      \* rows the payments table may receive
MaxWebhooks == 2      \* webhook deliveries that may be in flight together
MaxAdminReqs == 3     \* create-admin requests one behaviour may make
MaxRatingReqs == 2    \* rating and review requests one behaviour may make
MaxCategoryReqs == 3  \* category-creation requests one behaviour may make

\* --------------------------------------------------------- program constants
DefaultPriceCents == 199
SignedUrlSeconds == 300

\* ------------------------------------------------------------------ values
NULL == "<null>"
Undefined == "<undefined>"
NoUser == "<no user>"
\* A NULL image or artifact column (the others hold the record of a URL).
NoUrl == [base |-> NULL]
Revisions == {"s3", "A", "B", "v2", "p3"}

\* JavaScript truthiness of a text value of the request body.
Truthy(v) == v \notin {Undefined, NULL, ""}
\* a || b
OrElse(a, b) == IF Truthy(a) THEN a ELSE b
\* node-postgres sends undefined as NULL.
PgParam(v) == IF v = Undefined THEN NULL ELSE v

\* A number field of a request: absent, an empty string, a decimal text
\* ("500", "-5"), another text ("abc"), or a JSON number.
NoNum == [t |-> "undefined"]
EmptyNum == [t |-> "empty"]
TextNum == [t |-> "text"]
Digits(n) == [t |-> "digits", n |-> n]
JsonNum(n) == [t |-> "number", n |-> n]
NaN == [t |-> "NaN"]
NullNum == [t |-> "null"]
\* JavaScript truthiness of a text field holding a number ("0" is truthy).
TruthyNum(v) == v.t \notin {"undefined", "empty"}
Int32(n) == [t |-> "int", n |-> n]

\* An uploaded file of a multipart request.
NoFile == [originalname |-> <<>>]
File(name) == [originalname |-> name]
Present(f) == f # NoFile

\* str.replace(/\s+/g, "_") on a name given as its characters.
RECURSIVE Sanitize(_)
Sanitize(s) ==
  IF s = <<>> THEN <<>>
  ELSE IF Head(s) = " "
       THEN IF Len(s) > 1 /\ s[2] = " "
            THEN Sanitize(Tail(s))
            ELSE <<"_">> \o Sanitize(Tail(s))
       ELSE <<Head(s)>> \o Sanitize(Tail(s))

VARIABLES
  rev,            \* the revision this behaviour runs
  apps,           \* the apps table, rows in insertion order
  nextId,         \* the apps_id_seq sequence
  objects,        \* the object store: S3 keys, Cloudinary public ids
  nextAsset,      \* Cloudinary uploads made so far
  clock,          \* Date.now() / NOW()
  users,          \* the users table
  session,        \* req.session.user of the browser session
  resp,           \* the last response sent by a catalog or auth handler
  payments,       \* the payments table, rows in insertion order
  paymentsTable,  \* whether the payments table exists
  webhookSecret,  \* whether STRIPE_WEBHOOK_SECRET is set
  wh,             \* the webhook deliveries in flight
  ca,             \* the create-admin requests so far, each at its step
  tmp,            \* the files the last create or update request left in ./uploads
  categories,     \* the categories table, rows in insertion order
  cq,             \* the category-creation requests so far, each at its step
  ratings,        \* the ratings table, rows in insertion order
  reviews,        \* the reviews table, rows in insertion order
  appRating,      \* the rating column of the apps table, by app id
  rq              \* the rating and review requests so far, each at its step

vars == <<rev, apps, nextId, objects, nextAsset, clock, users, session, resp,
          payments, paymentsTable, webhookSecret, wh, ca, tmp, categories,
          cq, ratings, reviews, appRating, rq>>
catalogVars == <<apps, nextId, objects, nextAsset>>
authVars == <<users, session, ca>>
ledgerVars == <<payments, paymentsTable, webhookSecret, wh>>
socialVars == <<categories, cq, ratings, reviews, appRating, rq>>

\* ---------------------------------------------------------------- responses
NoBody == <<>>
Response(kind, status, why, authed, ups, body) ==
  [kind |-> kind, status |-> status, why |-> why, authed |-> authed,
   ups |-> ups, body |-> body]
NoResponse == Response("none", 0, "none", FALSE, <<>>, NoBody)

\* ------------------------------------------------------------------- tables
Ids(rows) == {rows[i].id : i \in DOMAIN rows}
RowsWithId(rows, id) == {i \in DOMAIN rows : rows[i].id = id}
RowOf(rows, id) == rows[CHOOSE i \in DOMAIN rows : rows[i].id = id]

RECURSIVE WithoutId(_, _)
WithoutId(rows, id) ==
  IF rows = <<>> THEN <<>>
  ELSE IF Head(rows).id = id THEN WithoutId(Tail(rows), id)
       ELSE <<Head(rows)>> \o WithoutId(Tail(rows), id)

\* The name and the artifact reference of a row, by the revision's columns.
NameOf(row) == IF rev = "s3" THEN row.nombre ELSE row.name
ArtifactOf(row) ==
  IF rev = "s3" THEN row.archivo
  ELSE IF rev = "p3" THEN row.file_url ELSE row.apk
ImageOf(row) ==
  IF rev = "s3" THEN row.imagen
  ELSE IF rev = "p3" THEN row.image_url ELSE row.image

\* ------------------------------------------------------------ object stores
S3Prefix == "https://BUCKET.s3.REGION.amazonaws.com/"
S3Key(folder, t, file) ==
  [folder |-> folder, t |-> t, name |-> Sanitize(file.originalname)]
\* uploadBufferToS3: the URL it returns for a key.
S3Url(key) == [base |-> S3Prefix, key |-> key]


\* ------------------------------------------------------------------ ordering
Perms(n) == {p \in [1..n -> 1..n] : \A i, j \in 1..n : i # j => p[i] # p[j]}
\* The results SELECT ... ORDER BY <key> DESC may return: SQL leaves the order
\* of rows with equal keys open.
OrderedDesc(rows, Key(_)) ==
  {[i \in 1..Len(rows) |-> rows[p[i]]] :
     p \in {p \in Perms(Len(rows)) :
              \A i, j \in 1..Len(rows) :
                 i < j => Key(rows[p[i]]) >= Key(rows[p[j]])}}
ById(row) == row.id
ByCreatedAt(row) == row.created_at

\* ------------------------------------------------------- revision "s3": auth
Hash(password) == <<"bcrypt", password>>
Compare(password, hash) == hash = Hash(password)
Usernames == {"admin"}
Passwords == {"pw", "bad"}

\* req.session.user is set: the request carries the session cookie and the
\* session holds a user.
Authed(q) == q.cookie /\ session # NoUser

\* requireLogin: "next", or the response it sends instead.
requireLogin(q) ==
  IF Authed(q) THEN "next"
  ELSE IF q.html THEN "redirect" ELSE "unauthorized"
Rejected(kind, q) ==
  IF requireLogin(q) = "redirect"
  THEN Response(kind, 302, "redirect", FALSE, <<>>, NoBody)
  ELSE Response(kind, 401, "unauthorized", FALSE, <<>>, NoBody)

CreateUserReqs == [username : Usernames \cup {Undefined}, password : {"pw", Undefined}]
\* app.post('/api/admin/create-user')
CreateUserS3(q) ==
  /\ rev = "s3"
  /\ IF ~Truthy(q.username) \/ ~Truthy(q.password)
     THEN /\ resp' = Response("create-user", 400, "validation", FALSE, <<>>, NoBody)
          /\ UNCHANGED users
     ELSE IF \E u \in users : u.username = q.username
     THEN /\ resp' = Response("create-user", 400, "db", FALSE, <<>>, NoBody)
          /\ UNCHANGED users
     ELSE /\ users' = users \cup {[username |-> q.username,
                                  password_hash |-> Hash(q.password)]}
          /\ resp' = Response("create-user", 200, "ok", FALSE, <<>>, NoBody)
  /\ UNCHANGED <<rev, tmp, socialVars, catalogVars, clock, session, ca, ledgerVars>>

LoginReqs == [username : Usernames \cup {"eve"}, password : Passwords]
\* app.post('/api/admin/login')
LoginS3(q) ==
  /\ rev = "s3"
  /\ IF ~\E u \in users : u.username = q.username
     THEN /\ resp' = Response("login", 401, "unauthorized", FALSE, <<>>, NoBody)
          /\ UNCHANGED session
     ELSE LET user == CHOOSE u \in users : u.username = q.username IN
          IF ~Compare(q.password, user.password_hash)
          THEN /\ resp' = Response("login", 401, "unauthorized", FALSE, <<>>, NoBody)
               /\ UNCHANGED session
          ELSE /\ session' = user.username
               /\ resp' = Response("login", 200, "ok", TRUE, <<>>, NoBody)
  /\ UNCHANGED <<rev, tmp, socialVars, catalogVars, clock, users, ca, ledgerVars>>

\* app.post('/api/admin/logout')
LogoutS3 ==
  /\ rev = "s3"
  /\ session' = NoUser
  /\ resp' = Response("logout", 200, "ok", FALSE, <<>>, NoBody)
  /\ UNCHANGED <<rev, tmp, socialVars, catalogVars, clock, users, ca, ledgerVars>>

\* ---------------------------------------------------- revision "s3": catalog
\* parseInt(text, 10)
ParseInt(v) == IF v.t = "digits" THEN Int32(v.n) ELSE NaN
\* req.body.price_cents || '199' for a multipart text field
PriceText(v) == IF v.t \in {"undefined", "empty"} THEN Digits(DefaultPriceCents) ELSE v
\* price_cents || 199 for a JSON field: 0 is falsy
PriceJson(v) ==
  IF v.t \in {"undefined", "empty"} \/ (v.t = "number" /\ v.n = 0)
  THEN JsonNum(DefaultPriceCents) ELSE v
\* What PostgreSQL stores in an INTEGER column for a parameter; NaN when it
\* refuses the parameter (invalid input syntax).
PgInteger(v) == IF v.t \in {"digits", "number", "int"} THEN Int32(v.n) ELSE NaN

\* The first step of a request that fails: an S3 or Cloudinary upload, the
\* database query, or none.
Fails == {"none", "archivo", "imagen", "db"}

\* An uploadBufferToS3 that swallowed the rejection of s3.send.
UploadNeverRejects(q, field) == FALSE
\* uploadBufferToS3 throws: s3.send rejected the upload of this field's file.
UploadRejects(q, field) == q.fail = field

\* app.post('/api/admin/upload')
CreateS3(q) ==
  /\ rev = "s3"
  /\ nextId <= MaxApps
  /\ IF requireLogin(q) # "next"
     THEN /\ resp' = Rejected("create", q)
          /\ UNCHANGED catalogVars
     ELSE
     LET nombre == OrElse(q.nombre, "Sin nombre")
         descripcion == OrElse(q.descripcion, "")
         price_cents == ParseInt(PriceText(q.price_cents))
         archivoKey == S3Key("apps", clock, q.archivo)
         imgKey == S3Key("img", clock, q.imagen)
         imagenUrl == IF Present(q.imagen) THEN S3Url(imgKey) ELSE NoUrl
         row == [id |-> nextId, nombre |-> nombre, descripcion |-> descripcion,
                 imagen |-> imagenUrl, archivo |-> S3Url(archivoKey),
                 price_cents |-> price_cents.n, created_at |-> clock]
     IN
     IF ~Present(q.archivo)
     THEN /\ resp' = Response("create", 400, "validation", TRUE, <<>>, NoBody)
          /\ UNCHANGED catalogVars
     ELSE IF UploadRejects(q, "archivo")
     THEN /\ resp' = Response("create", 500, "upload", TRUE, <<"archivo">>, NoBody)
          /\ UNCHANGED catalogVars
     ELSE IF Present(q.imagen) /\ UploadRejects(q, "imagen")
     THEN /\ objects' = objects \cup {archivoKey}
          /\ resp' = Response("create", 500, "upload", TRUE,
                              <<"archivo", "imagen">>, NoBody)
          /\ UNCHANGED <<apps, nextId, nextAsset>>
     ELSE
       /\ objects' = objects \cup {archivoKey}
                       \cup (IF Present(q.imagen) THEN {imgKey} ELSE {})
       /\ UNCHANGED nextAsset
       /\ LET ups == IF Present(q.imagen) THEN <<"archivo", "imagen">>
                     ELSE <<"archivo">> IN
          IF q.fail = "db" \/ price_cents = NaN
          THEN /\ resp' = Response("create", 500, "db", TRUE, ups, NoBody)
               /\ UNCHANGED <<apps, nextId>>
          ELSE /\ apps' = Append(apps, row)
               /\ nextId' = nextId + 1
               /\ resp' = Response("create", 200, "ok", TRUE, ups, row)
  /\ UNCHANGED <<rev, tmp, socialVars, clock, authVars, ledgerVars>>

\* app.put('/api/admin/apps/:id')
UpdateS3(q) ==
  /\ rev = "s3"
  /\ IF requireLogin(q) # "next"
     THEN /\ resp' = Rejected("update", q)
          /\ UNCHANGED catalogVars
     ELSE
     LET nombre == PgParam(q.nombre)
         descripcion == PgParam(q.descripcion)
         price_cents == PgInteger(PriceJson(q.price_cents))
         hit == RowsWithId(apps, q.id)
     IN
     IF \/ q.fail = "db"
        \/ price_cents = NaN
        \/ (hit # {} /\ nombre = NULL)
     THEN /\ resp' = Response("update", 500, "db", TRUE, <<>>, NoBody)
          /\ UNCHANGED catalogVars
     ELSE /\ apps' = [i \in DOMAIN apps |->
                        IF i \in hit
                        THEN [apps[i] EXCEPT !.nombre = nombre,
                                             !.descripcion = descripcion,
                                             !.price_cents = price_cents.n]
                        ELSE apps[i]]
          /\ resp' = Response("update", 200, "ok", TRUE, <<>>, NoBody)
          /\ UNCHANGED <<nextId, objects, nextAsset>>
  /\ UNCHANGED <<rev, tmp, socialVars, clock, authVars, ledgerVars>>

\* app.delete('/api/admin/apps/:id')
DeleteS3(q) ==
  /\ rev = "s3"
  /\ IF requireLogin(q) # "next"
     THEN /\ resp' = Rejected("delete", q)
          /\ UNCHANGED catalogVars
     ELSE IF q.fail = "db"
     THEN /\ resp' = Response("delete", 500, "db", TRUE, <<>>, NoBody)
          /\ UNCHANGED catalogVars
     ELSE IF RowsWithId(apps, q.id) = {}
     THEN /\ resp' = Response("delete", 404, "notfound", TRUE, <<>>, NoBody)
          /\ UNCHANGED catalogVars
     ELSE /\ apps' = WithoutId(apps, q.id)
          /\ resp' = Response("delete", 200, "ok", TRUE, <<>>, NoBody)
          /\ UNCHANGED <<nextId, objects, nextAsset>>
  /\ UNCHANGED <<rev, tmp, socialVars, clock, authVars, ledgerVars>>

\* What GET /api/apps may answer in the current state.
ListResultsS3 == OrderedDesc(apps, ById)
\* app.get('/api/apps')
ListS3(q) ==
  /\ rev = "s3"
  /\ IF q.fail = "db"
     THEN resp' = Response("list", 500, "db", Authed(q), <<>>, NoBody)
     ELSE \E rows \in ListResultsS3 :
            resp' = Response("list", 200, "ok", Authed(q), <<>>, rows)
  /\ UNCHANGED <<rev, tmp, socialVars, catalogVars, clock, authVars, ledgerVars>>

\* A signed URL that outlives the window.
LongLivedUrl(key) == [signed |-> TRUE, key |-> key, expiresIn |-> 12 * SignedUrlSeconds]
\* getSignedUrl(s3, GetObjectCommand, { expiresIn: 60 * 5 })
SignedUrl(key) == [signed |-> TRUE, key |-> key, expiresIn |-> SignedUrlSeconds]
PlainUrl(url) == [signed |-> FALSE, url |-> url]

\* app.get('/api/apps/:id/download')
DownloadS3(q) ==
  /\ rev = "s3"
  /\ IF q.fail = "db"
     THEN resp' = Response("download", 500, "db", Authed(q), <<>>, NoBody)
     ELSE IF RowsWithId(apps, q.id) = {}
     THEN resp' = Response("download", 404, "notfound", Authed(q), <<>>, NoBody)
     ELSE LET archivoUrl == RowOf(apps, q.id).archivo IN
          IF archivoUrl.base = S3Prefix
          THEN IF q.fail = "sign"
               THEN resp' = Response("download", 500, "sign", Authed(q), <<>>, NoBody)
               ELSE resp' = Response("download", 200, "ok", Authed(q), <<>>,
                                     [id |-> q.id, url |-> SignedUrl(archivoUrl.key)])
          ELSE resp' = Response("download", 200, "ok", Authed(q), <<>>,
                                [id |-> q.id, url |-> PlainUrl(archivoUrl)])
  /\ UNCHANGED <<rev, tmp, socialVars, catalogVars, clock, authVars, ledgerVars>>

\* ------------------------------------------------- Cloudinary (A, B, v2, p3)
CloudBase == "https://res.cloudinary.com/"
ImageFolder == <<"mi_store", "apps">>
RawFolder == <<"mi_store", "apks">>
ImageFolderP3 == <<"mi-store", "apps">>
RawFolderP3 == <<"mi-store", "files">>
\* The asset the n-th upload stores: its public id is the folder and a name
\* Cloudinary draws, new for every upload.
Asset(folder, n) == [path |-> folder, n |-> n]
\* result.secure_url
SecureUrl(asset) == [base |-> CloudBase, asset |-> asset]
\* url.split("/").slice(-2).join("/").split(".")[0]
PublicIdOf(url) ==
  [path |-> <<url.asset.path[Len(url.asset.path)]>>, n |-> url.asset.n]
\* cloudinary.uploader.destroy(publicId)
Destroy(store, publicId) == store \ {publicId}

Count(f) == IF Present(f) THEN 1 ELSE 0
\* An update that stored the upload's result whether or not a file came.
ReplacedAlways(file, url, old) == url
\* let url = old.url; if (req.files?.field) url = (await upload).secure_url
Replaced(file, url, old) == IF Present(file) THEN url ELSE old
\* name && name.trim()
Blank(v) == v \in {"", " "}
\* is_paid === "true" || "1" || "on"
IsPaidA(raw) == raw \in {"true", "1", "on"}
\* category_id ? parseInt(category_id, 10) : fallback
CategoryIdA(raw, fallback) == IF TruthyNum(raw) THEN ParseInt(raw) ELSE fallback

\* ------------------------------------------ temporary files (disk storage)
\* multer.diskStorage filename, server.js 51 and 391, part_004 107-108:
\* Date.now() + "-" + the original name with its white space replaced
TempFile(f) == [at |-> clock, name |-> Sanitize(f.originalname)]
\* upload.fields([{ name: "image" }, { name: "apk" }]) writes the files of the
\* request to ./uploads before the handler runs
Written(q) == {TempFile(f) : f \in {q.image, q.apk} \ {NoFile}}
FileOf(q, field) == IF field = "image" THEN q.image ELSE q.apk
\* The fields whose upload to Cloudinary ended well: of the uploads an answer
\* reports, all but the failed one.
Uploaded(r) ==
  IF r.why = "upload" THEN SubSeq(r.ups, 1, Len(r.ups) - 1) ELSE r.ups
\* server.js 159, 165, 201, 208, 493, 507, part_004 176, 188: a file is
\* unlinked right after its own upload, and nowhere else
EachUnlinked(q, r) ==
  Written(q) \ {TempFile(FileOf(q, Uploaded(r)[k])) : k \in DOMAIN Uploaded(r)}
\* server.js 439-440, part_004 142-143: both files are unlinked after both
\* uploads, and nowhere else
BothUnlinked(q, r) ==
  IF r.why # "upload" /\ r.ups # <<>> THEN {} ELSE Written(q)
\* --------------------------------------------------------------- revision A
\* app.post("/apps"), server.js 144-178
CreateA(q) ==
  /\ rev = "A"
  /\ nextId <= MaxApps
  /\ nextAsset + Count(q.image) + Count(q.apk) <= MaxAssets
  /\ LET imageAsset == Asset(ImageFolder, nextAsset + 1)
         apkAsset == Asset(RawFolder, nextAsset + Count(q.image) + 1)
         imageUrl == IF Present(q.image) THEN SecureUrl(imageAsset) ELSE NoUrl
         apkUrl == IF Present(q.apk) THEN SecureUrl(apkAsset) ELSE NoUrl
         ups == (IF Present(q.image) THEN <<"image">> ELSE <<>>)
                  \o (IF Present(q.apk) THEN <<"apk">> ELSE <<>>)
         row == [id |-> nextId, name |-> q.name,
                 description |-> OrElse(q.description, NULL),
                 image |-> imageUrl, apk |-> apkUrl,
                 category_id |-> CategoryIdA(q.category_id, NullNum),
                 is_paid |-> IsPaidA(q.is_paid), created_at |-> clock]
     IN
     IF ~Truthy(q.name)
     THEN /\ resp' = Response("create", 400, "validation", FALSE, <<>>, NoBody)
          /\ UNCHANGED catalogVars
     ELSE IF Present(q.image) /\ q.fail = "image"
     THEN /\ resp' = Response("create", 500, "upload", FALSE, <<"image">>, NoBody)
          /\ UNCHANGED catalogVars
     ELSE IF Present(q.apk) /\ q.fail = "apk"
     THEN /\ objects' = objects \cup (IF Present(q.image) THEN {imageAsset} ELSE {})
          /\ nextAsset' = nextAsset + Count(q.image)
          /\ resp' = Response("create", 500, "upload", FALSE, ups, NoBody)
          /\ UNCHANGED <<apps, nextId>>
     ELSE
       /\ objects' = objects \cup (IF Present(q.image) THEN {imageAsset} ELSE {})
                             \cup (IF Present(q.apk) THEN {apkAsset} ELSE {})
       /\ nextAsset' = nextAsset + Count(q.image) + Count(q.apk)
       /\ IF q.fail = "db" \/ row.category_id = NaN
          THEN /\ resp' = Response("create", 500, "db", FALSE, ups, NoBody)
               /\ UNCHANGED <<apps, nextId>>
          ELSE /\ apps' = Append(apps, row)
               /\ nextId' = nextId + 1
               /\ resp' = Response("create", 201, "ok", FALSE, ups, row)
  /\ tmp' = EachUnlinked(q, resp')
  /\ UNCHANGED <<rev, socialVars, clock, authVars, ledgerVars>>

\* app.put("/apps/:id"), server.js 181-229
UpdateA(q) ==
  /\ rev = "A"
  /\ nextAsset + Count(q.image) + Count(q.apk) <= MaxAssets
  /\ IF q.fail = "select"
     THEN /\ resp' = Response("update", 500, "db", FALSE, <<>>, NoBody)
          /\ UNCHANGED catalogVars
     ELSE IF RowsWithId(apps, q.id) = {}
     THEN /\ resp' = Response("update", 404, "notfound", FALSE, <<>>, NoBody)
          /\ UNCHANGED catalogVars
     ELSE
     LET old == RowOf(apps, q.id)
         imageAsset == Asset(ImageFolder, nextAsset + 1)
         apkAsset == Asset(RawFolder, nextAsset + Count(q.image) + 1)
         imageUrl == Replaced(q.image, SecureUrl(imageAsset), old.image)
         apkUrl == Replaced(q.apk, SecureUrl(apkAsset), old.apk)
         ups == (IF Present(q.image) THEN <<"image">> ELSE <<>>)
                  \o (IF Present(q.apk) THEN <<"apk">> ELSE <<>>)
         row == [old EXCEPT
                   !.name = IF Truthy(q.name) /\ ~Blank(q.name) THEN q.name ELSE old.name,
                   !.description = IF q.description # Undefined THEN q.description
                                   ELSE old.description,
                   !.image = imageUrl,
                   !.apk = apkUrl,
                   !.category_id = CategoryIdA(q.category_id, old.category_id),
                   !.is_paid = IsPaidA(q.is_paid)]
     IN
     IF Present(q.image) /\ q.fail = "image"
     THEN /\ resp' = Response("update", 500, "upload", FALSE, <<"image">>, NoBody)
          /\ UNCHANGED catalogVars
     ELSE IF Present(q.apk) /\ q.fail = "apk"
     THEN /\ objects' = objects \cup (IF Present(q.image) THEN {imageAsset} ELSE {})
          /\ nextAsset' = nextAsset + Count(q.image)
          /\ resp' = Response("update", 500, "upload", FALSE, ups, NoBody)
          /\ UNCHANGED <<apps, nextId>>
     ELSE
       /\ objects' = objects \cup (IF Present(q.image) THEN {imageAsset} ELSE {})
                             \cup (IF Present(q.apk) THEN {apkAsset} ELSE {})
       /\ nextAsset' = nextAsset + Count(q.image) + Count(q.apk)
       /\ UNCHANGED nextId
       /\ IF q.fail = "db" \/ row.category_id = NaN
          THEN /\ resp' = Response("update", 500, "db", FALSE, ups, NoBody)
               /\ UNCHANGED apps
          ELSE /\ apps' = [i \in DOMAIN apps |->
                             IF apps[i].id = q.id THEN row ELSE apps[i]]
               /\ resp' = Response("update", 200, "ok", FALSE, ups, row)
  /\ tmp' = EachUnlinked(q, resp')
  /\ UNCHANGED <<rev, socialVars, clock, authVars, ledgerVars>>

\* app.delete("/apps/:id"), server.js 232-257
DeleteA(q) ==
  /\ rev = "A"
  /\ IF q.fail = "select"
     THEN /\ resp' = Response("delete", 500, "db", FALSE, <<>>, NoBody)
          /\ UNCHANGED catalogVars
     ELSE IF RowsWithId(apps, q.id) = {}
     THEN /\ resp' = Response("delete", 404, "notfound", FALSE, <<>>, NoBody)
          /\ UNCHANGED catalogVars
     ELSE
     LET item == RowOf(apps, q.id)
         afterImage == IF item.image # NoUrl /\ q.fail # "destroy"
                       THEN Destroy(objects, PublicIdOf(item.image)) ELSE objects
         afterApk == IF item.apk # NoUrl /\ q.fail # "destroy"
                     THEN Destroy(afterImage, PublicIdOf(item.apk)) ELSE afterImage
     IN
       /\ objects' = afterApk
       /\ UNCHANGED <<nextId, nextAsset>>
       /\ IF q.fail = "db"
          THEN /\ resp' = Response("delete", 500, "db", FALSE, <<>>, NoBody)
               /\ UNCHANGED apps
          ELSE /\ apps' = WithoutId(apps, q.id)
               /\ resp' = Response("delete", 200, "ok", FALSE, <<>>, NoBody)
  /\ UNCHANGED <<rev, tmp, socialVars, clock, authVars, ledgerVars>>

\* What GET /api/apps may answer in the current state.
ListResultsA == OrderedDesc(apps, ByCreatedAt)
\* app.get("/api/apps"), server.js 126-141
ListA(q) ==
  /\ rev = "A"
  /\ IF q.fail = "db"
     THEN resp' = Response("list", 500, "db", FALSE, <<>>, NoBody)
     ELSE \E rows \in ListResultsA :
            resp' = Response("list", 200, "ok", FALSE, <<>>, rows)
  /\ UNCHANGED <<rev, tmp, socialVars, catalogVars, clock, authVars, ledgerVars>>

\* --------------------------------------------------------------- revision B
\* app.post("/apps"), server.js 414-454
\* The apps table of revisions B and v2 is created outside the source: as in
\* every revision that declares it, its name column is NOT NULL.
CreateB(q) ==
  /\ rev = "B"
  /\ nextId <= MaxApps
  /\ nextAsset + Count(q.image) + Count(q.apk) <= MaxAssets
  /\ LET imageAsset == Asset(ImageFolder, nextAsset + 1)
         apkAsset == Asset(RawFolder, nextAsset + 2)
         row == [id |-> nextId, name |-> PgParam(q.name),
                 description |-> PgParam(q.description),
                 image |-> SecureUrl(imageAsset), apk |-> SecureUrl(apkAsset),
                 created_at |-> clock]
     IN
     IF ~Present(q.image) \/ ~Present(q.apk)
     THEN /\ resp' = Response("create", 400, "validation", FALSE, <<>>, NoBody)
          /\ UNCHANGED catalogVars
     ELSE IF q.fail = "image"
     THEN /\ resp' = Response("create", 500, "upload", FALSE, <<"image">>, NoBody)
          /\ UNCHANGED catalogVars
     ELSE IF q.fail = "apk"
     THEN /\ objects' = objects \cup {imageAsset}
          /\ nextAsset' = nextAsset + 1
          /\ resp' = Response("create", 500, "upload", FALSE, <<"image", "apk">>, NoBody)
          /\ UNCHANGED <<apps, nextId>>
     ELSE
       /\ objects' = objects \cup {imageAsset, apkAsset}
       /\ nextAsset' = nextAsset + 2
       /\ IF q.fail = "db" \/ row.name = NULL
          THEN /\ resp' = Response("create", 500, "db", FALSE, <<"image", "apk">>, NoBody)
               /\ UNCHANGED <<apps, nextId>>
          ELSE /\ apps' = Append(apps, row)
               /\ nextId' = nextId + 1
               /\ resp' = Response("create", 200, "ok", FALSE, <<"image", "apk">>, row)
  /\ tmp' = BothUnlinked(q, resp')
  /\ UNCHANGED <<rev, socialVars, clock, authVars, ledgerVars>>

\* app.put("/apps/:id"), server.js 472-524
UpdateB(q) ==
  /\ rev = "B"
  /\ nextAsset + Count(q.image) + Count(q.apk) <= MaxAssets
  /\ IF q.fail = "select"
     THEN /\ resp' = Response("update", 500, "db", FALSE, <<>>, NoBody)
          /\ UNCHANGED catalogVars
     ELSE IF RowsWithId(apps, q.id) = {}
     THEN /\ resp' = Response("update", 404, "notfound", FALSE, <<>>, NoBody)
          /\ UNCHANGED catalogVars
     ELSE
     LET oldApp == RowOf(apps, q.id)
         imageAsset == Asset(ImageFolder, nextAsset + 1)
         apkAsset == Asset(RawFolder, nextAsset + Count(q.image) + 1)
         newImage == Replaced(q.image, SecureUrl(imageAsset), oldApp.image)
         newApk == Replaced(q.apk, SecureUrl(apkAsset), oldApp.apk)
         ups == (IF Present(q.image) THEN <<"image">> ELSE <<>>)
                  \o (IF Present(q.apk) THEN <<"apk">> ELSE <<>>)
         row == [oldApp EXCEPT !.name = OrElse(q.name, oldApp.name),
                               !.description = OrElse(q.description, oldApp.description),
                               !.image = newImage,
                               !.apk = newApk]
     IN
     IF Present(q.image) /\ q.fail = "image"
     THEN /\ resp' = Response("update", 500, "upload", FALSE, <<"image">>, NoBody)
          /\ UNCHANGED catalogVars
     ELSE IF Present(q.apk) /\ q.fail = "apk"
     THEN /\ objects' = objects \cup (IF Present(q.image) THEN {imageAsset} ELSE {})
          /\ nextAsset' = nextAsset + Count(q.image)
          /\ resp' = Response("update", 500, "upload", FALSE, ups, NoBody)
          /\ UNCHANGED <<apps, nextId>>
     ELSE
       /\ objects' = objects \cup (IF Present(q.image) THEN {imageAsset} ELSE {})
                             \cup (IF Present(q.apk) THEN {apkAsset} ELSE {})
       /\ nextAsset' = nextAsset + Count(q.image) + Count(q.apk)
       /\ UNCHANGED nextId
       /\ IF q.fail = "db"
          THEN /\ resp' = Response("update", 500, "db", FALSE, ups, NoBody)
               /\ UNCHANGED apps
          ELSE /\ apps' = [i \in DOMAIN apps |->
                             IF apps[i].id = q.id THEN row ELSE apps[i]]
               /\ resp' = Response("update", 200, "ok", FALSE, ups, row)
  /\ tmp' = EachUnlinked(q, resp')
  /\ UNCHANGED <<rev, socialVars, clock, authVars, ledgerVars>>

\* A cleanup failure passed on to the outer handler.
Rethrown(failure) == failure
\* try { ...destroy... } catch (err) { console.warn(...) }, server.js 540-547:
\* what of a cleanup failure reaches the outer handler
Caught(failure) == "none"
\* app.delete("/apps/:id"), server.js 529-554.  Both public ids are computed
\* before the first destroy: a null reference throws a TypeError there.
DeleteB(q) ==
  /\ rev = "B"
  /\ IF q.fail = "select"
     THEN /\ resp' = Response("delete", 500, "db", FALSE, <<>>, NoBody)
          /\ UNCHANGED catalogVars
     ELSE IF RowsWithId(apps, q.id) = {}
     THEN /\ resp' = Response("delete", 404, "notfound", FALSE, <<>>, NoBody)
          /\ UNCHANGED catalogVars
     ELSE
     LET item == RowOf(apps, q.id)
         cleanup == IF item.image = NoUrl \/ item.apk = NoUrl THEN "TypeError"
                    ELSE IF q.fail = "destroy" THEN "destroy" ELSE "none"
         destroyed == IF cleanup = "none"
                      THEN Destroy(Destroy(objects, PublicIdOf(item.image)),
                                   PublicIdOf(item.apk))
                      ELSE objects
     IN
       /\ objects' = destroyed
       /\ UNCHANGED <<nextId, nextAsset>>
       /\ IF Caught(cleanup) # "none" \/ q.fail = "db"
          THEN /\ resp' = Response("delete", 500, "db", FALSE, <<>>, NoBody)
               /\ UNCHANGED apps
          ELSE /\ apps' = WithoutId(apps, q.id)
               /\ resp' = Response("delete", 200, "ok", FALSE, <<>>, NoBody)
  /\ UNCHANGED <<rev, tmp, socialVars, clock, authVars, ledgerVars>>
\* -------------------------------------------------------------- revision v2
NoTime == [t |-> "null"]
Time(t) == [t |-> "timestamp", at |-> t]

\* app.post("/apps"), part_004 124-155
CreateV2(q) ==
  /\ rev = "v2"
  /\ nextId <= MaxApps
  /\ nextAsset + Count(q.image) + Count(q.apk) <= MaxAssets
  /\ LET imageAsset == Asset(ImageFolder, nextAsset + 1)
         apkAsset == Asset(RawFolder, nextAsset + 2)
         row == [id |-> nextId, name |-> PgParam(q.name),
                 description |-> PgParam(q.description),
                 image |-> SecureUrl(imageAsset), apk |-> SecureUrl(apkAsset),
                 category |-> PgParam(q.category),
                 is_paid |-> (q.is_paid = "true"),
                 created_at |-> clock, updated_at |-> NoTime]
     IN
     IF ~Present(q.image) \/ ~Present(q.apk)
     THEN /\ resp' = Response("create", 400, "validation", FALSE, <<>>, NoBody)
          /\ UNCHANGED catalogVars
     ELSE IF q.fail = "image"
     THEN /\ resp' = Response("create", 500, "upload", FALSE, <<"image">>, NoBody)
          /\ UNCHANGED catalogVars
     ELSE IF q.fail = "apk"
     THEN /\ objects' = objects \cup {imageAsset}
          /\ nextAsset' = nextAsset + 1
          /\ resp' = Response("create", 500, "upload", FALSE, <<"image", "apk">>, NoBody)
          /\ UNCHANGED <<apps, nextId>>
     ELSE
       /\ objects' = objects \cup {imageAsset, apkAsset}
       /\ nextAsset' = nextAsset + 2
       /\ IF q.fail = "db" \/ row.name = NULL
          THEN /\ resp' = Response("create", 500, "db", FALSE, <<"image", "apk">>, NoBody)
               /\ UNCHANGED <<apps, nextId>>
          ELSE /\ apps' = Append(apps, row)
               /\ nextId' = nextId + 1
               /\ resp' = Response("create", 200, "ok", FALSE, <<"image", "apk">>, NoBody)
  /\ tmp' = BothUnlinked(q, resp')
  /\ UNCHANGED <<rev, socialVars, clock, authVars, ledgerVars>>

\* app.put("/apps/:id"), part_004 158-210
UpdateV2(q) ==
  /\ rev = "v2"
  /\ nextAsset + Count(q.image) + Count(q.apk) <= MaxAssets
  /\ IF q.fail = "select"
     THEN /\ resp' = Response("update", 500, "db", FALSE, <<>>, NoBody)
          /\ UNCHANGED catalogVars
     ELSE IF RowsWithId(apps, q.id) = {}
     THEN /\ resp' = Response("update", 404, "notfound", FALSE, <<>>, NoBody)
          /\ UNCHANGED catalogVars
     ELSE
     LET appData == RowOf(apps, q.id)
         imageAsset == Asset(ImageFolder, nextAsset + 1)
         apkAsset == Asset(RawFolder, nextAsset + Count(q.image) + 1)
         imageUrl == Replaced(q.image, SecureUrl(imageAsset), appData.image)
         apkUrl == Replaced(q.apk, SecureUrl(apkAsset), appData.apk)
         ups == (IF Present(q.image) THEN <<"image">> ELSE <<>>)
                  \o (IF Present(q.apk) THEN <<"apk">> ELSE <<>>)
         row == [appData EXCEPT
                   !.name = OrElse(q.name, appData.name),
                   !.description = OrElse(q.description, appData.description),
                   !.image = imageUrl,
                   !.apk = apkUrl,
                   !.category = OrElse(q.category, appData.category),
                   !.is_paid = IF q.is_paid # Undefined THEN q.is_paid = "true"
                               ELSE appData.is_paid,
                   !.updated_at = Time(clock)]
     IN
     IF Present(q.image) /\ q.fail = "image"
     THEN /\ resp' = Response("update", 500, "upload", FALSE, <<"image">>, NoBody)
          /\ UNCHANGED catalogVars
     ELSE IF Present(q.apk) /\ q.fail = "apk"
     THEN /\ objects' = objects \cup (IF Present(q.image) THEN {imageAsset} ELSE {})
          /\ nextAsset' = nextAsset + Count(q.image)
          /\ resp' = Response("update", 500, "upload", FALSE, ups, NoBody)
          /\ UNCHANGED <<apps, nextId>>
     ELSE
       /\ objects' = objects \cup (IF Present(q.image) THEN {imageAsset} ELSE {})
                             \cup (IF Present(q.apk) THEN {apkAsset} ELSE {})
       /\ nextAsset' = nextAsset + Count(q.image) + Count(q.apk)
       /\ UNCHANGED nextId
       /\ IF q.fail = "db"
          THEN /\ resp' = Response("update", 500, "db", FALSE, ups, NoBody)
               /\ UNCHANGED apps
          ELSE /\ apps' = [i \in DOMAIN apps |->
                             IF apps[i].id = q.id THEN row ELSE apps[i]]
               /\ resp' = Response("update", 200, "ok", FALSE, ups, NoBody)
  /\ tmp' = EachUnlinked(q, resp')
  /\ UNCHANGED <<rev, socialVars, clock, authVars, ledgerVars>>

\* app.delete("/apps/:id"), part_004 224-232
DeleteV2(q) ==
  /\ rev = "v2"
  /\ IF q.fail = "db"
     THEN /\ resp' = Response("delete", 500, "db", FALSE, <<>>, NoBody)
          /\ UNCHANGED catalogVars
     ELSE /\ apps' = WithoutId(apps, q.id)
          /\ resp' = Response("delete", 200, "ok", FALSE, <<>>, NoBody)
          /\ UNCHANGED <<nextId, objects, nextAsset>>
  /\ UNCHANGED <<rev, tmp, socialVars, clock, authVars, ledgerVars>>
\* -------------------------------------------------------------- revision p3
\* app.post("/upload-app"), part_003 63-125.  Both uploads are started before
\* either is awaited (Promise.all): one may fail and the other still store
\* its asset.
CreateP3(q) ==
  /\ rev = "p3"
  /\ nextId <= MaxApps
  /\ nextAsset + Count(q.image) + Count(q.file) <= MaxAssets
  /\ LET imageAsset == Asset(ImageFolderP3, nextAsset + 1)
         fileAsset == Asset(RawFolderP3, nextAsset + 2)
         imageOk == q.fail \notin {"image", "both"}
         fileOk == Present(q.file) /\ q.fail \notin {"file", "both"}
         ups == <<"image">> \o (IF Present(q.file) THEN <<"file">> ELSE <<>>)
         row == [id |-> nextId, name |-> PgParam(q.name),
                 description |-> PgParam(q.description),
                 image_url |-> SecureUrl(imageAsset),
                 file_url |-> IF Present(q.file) THEN SecureUrl(fileAsset) ELSE NoUrl,
                 created_at |-> clock]
     IN
     IF ~Present(q.image)
     THEN /\ resp' = Response("create", 400, "validation", FALSE, <<>>, NoBody)
          /\ UNCHANGED catalogVars
     ELSE
       /\ objects' = objects \cup (IF imageOk THEN {imageAsset} ELSE {})
                             \cup (IF fileOk THEN {fileAsset} ELSE {})
       /\ nextAsset' = nextAsset + Count(q.image) + Count(q.file)
       /\ IF ~imageOk \/ (Present(q.file) /\ ~fileOk)
          THEN /\ resp' = Response("create", 500, "upload", FALSE, ups, NoBody)
               /\ UNCHANGED <<apps, nextId>>
          ELSE IF q.fail = "db" \/ row.name = NULL
          THEN /\ resp' = Response("create", 500, "db", FALSE, ups, NoBody)
               /\ UNCHANGED <<apps, nextId>>
          ELSE /\ apps' = Append(apps, row)
               /\ nextId' = nextId + 1
               /\ resp' = Response("create", 200, "ok", FALSE, ups, NoBody)
  /\ UNCHANGED <<rev, tmp, socialVars, clock, authVars, ledgerVars>>

\* app.get("/create-admin"), part_003 155-171 (part_002 100-118 is the same
\* but for looking the admin up by username).  The handler awaits the SELECT,
\* the hash and the INSERT: other requests run in between.  ca[i] is the
\* step request i is at, or how it ended.
AdminRow == [username |-> "admin", password |-> Hash("admin123"), role |-> "admin"]
Admins == {u \in users : u.role = "admin"}
AdminAnswer(i, status, why) ==
  Response("create-admin", status, why, FALSE, <<>>, [n |-> i])
\* a request arrives and sends its SELECT
CreateAdminArrive ==
  /\ rev = "p3"
  /\ Len(ca) < MaxAdminReqs
  /\ ca' = Append(ca, "select")
  /\ UNCHANGED <<rev, tmp, socialVars, catalogVars, clock, users, session, resp, ledgerVars>>
\* part_003 157-159: the SELECT answers
CreateAdminSelect(i, ok) ==
  /\ rev = "p3"
  /\ ca[i] = "select"
  /\ IF ~ok
     THEN /\ ca' = [ca EXCEPT ![i] = "failed"]
          /\ resp' = AdminAnswer(i, 500, "db")
     ELSE IF Admins # {}
     THEN /\ ca' = [ca EXCEPT ![i] = "exists"]
          /\ resp' = AdminAnswer(i, 200, "exists")
     ELSE /\ ca' = [ca EXCEPT ![i] = "insert"]
          /\ UNCHANGED resp
  /\ UNCHANGED <<rev, tmp, socialVars, catalogVars, clock, users, session, ledgerVars>>
\* part_003 161-166: the INSERT answers; username is UNIQUE (part_003 52)
CreateAdminInsert(i, ok) ==
  /\ rev = "p3"
  /\ ca[i] = "insert"
  /\ IF ~ok
     THEN /\ ca' = [ca EXCEPT ![i] = "failed"]
          /\ resp' = AdminAnswer(i, 500, "db")
          /\ UNCHANGED users
     ELSE IF \E u \in users : u.username = AdminRow.username
     THEN /\ ca' = [ca EXCEPT ![i] = "conflict"]
          /\ resp' = AdminAnswer(i, 500, "unique")
          /\ UNCHANGED users
     ELSE /\ users' = users \cup {AdminRow}
          /\ ca' = [ca EXCEPT ![i] = "created"]
          /\ resp' = AdminAnswer(i, 200, "created")
  /\ UNCHANGED <<rev, tmp, socialVars, catalogVars, clock, session, ledgerVars>>
\* -------------------------------------------------- revision "s3": the ledger
CheckoutCompleted == "checkout.session.completed"
EventTypes == {CheckoutCompleted, "payment_intent.succeeded"}
SessionIds == {"cs_1", "cs_2"}
\* session.metadata: missing, or an object whose appId may be undefined.
NoMeta == [has |-> FALSE]
Meta(appId) == [has |-> TRUE, appId |-> appId]
WebhookReqs ==
  [type : EventTypes, id : SessionIds,
   metadata : {NoMeta, Meta(NoNum), Meta(TextNum), Meta(Digits(1))},
   email : {Undefined}, sig : BOOLEAN]

\* stripe.webhooks.constructEvent succeeds; without a webhook secret the
\* handler takes the body as the event.
Verified(q) == IF webhookSecret THEN q.sig ELSE TRUE

\* The row the handler inserts for a checkout session.
PaymentRow(f) ==
  [session_id |-> f.id,
   app_id |-> IF f.metadata.has
              THEN IF f.metadata.appId = NoNum THEN NullNum
                   ELSE PgInteger(f.metadata.appId)
              ELSE NullNum,
   customer_email |-> PgParam(f.email),
   paid_at |-> clock]

InFlight(pc, q) == [pc |-> pc, id |-> q.id, metadata |-> q.metadata,
                    email |-> q.email, sig |-> q.sig]
Move(f, pc) == (wh (-) SetToBag({f})) (+) SetToBag({[f EXCEPT !.pc = pc]})
Leave(f) == wh (-) SetToBag({f})
Delivered(q, status, why) ==
  Response("webhook", status, why, FALSE, <<>>,
           [id |-> q.id, type |-> q.type, sig |-> q.sig])
\* A ledger failure passed on to the caller.
Errored(f, why) ==
  Response("webhook", 500, why, FALSE, <<>>,
           [id |-> f.id, type |-> CheckoutCompleted, sig |-> f.sig])
Acked(f, why) ==
  Response("webhook", 200, why, FALSE, <<>>,
           [id |-> f.id, type |-> CheckoutCompleted, sig |-> f.sig])

\* A handler that took every event for a completed checkout.
AnyEventCompleted(q) == TRUE
\* event.type === 'checkout.session.completed'
IsCheckoutCompleted(q) == q.type = CheckoutCompleted

\* app.post('/webhook'), part_005 178-202: up to the first INSERT being sent
WebhookReceive(q) ==
  /\ rev = "s3"
  /\ BagCardinality(wh) < MaxWebhooks
  /\ Len(payments) + BagCardinality(wh) < MaxPayments
  /\ IF ~Verified(q)
     THEN /\ resp' = Delivered(q, 400, "signature")
          /\ UNCHANGED wh
     ELSE IF IsCheckoutCompleted(q)
     THEN /\ wh' = wh (+) SetToBag({InFlight("insert", q)})
          /\ UNCHANGED resp
     ELSE /\ resp' = Delivered(q, 200, "ignored")
          /\ UNCHANGED wh
  /\ UNCHANGED <<rev, tmp, socialVars, catalogVars, clock, authVars, payments, paymentsTable,
                 webhookSecret>>

\* An INSERT that replaced the table's rows.
InsertPaymentOver(row) == <<row>>
\* PostgreSQL takes the row: app_id is an INTEGER column, a text that is no
\* number is refused (invalid input syntax).
Accepts(row) == row.app_id # NaN
\* INSERT INTO payments: the table has no unique constraint.
InsertPayment(row) == Append(payments, row)

\* part_005 202-203: the first INSERT answers
WebhookInsert(f, ok) ==
  /\ rev = "s3"
  /\ BagIn(f, wh) /\ f.pc = "insert"
  /\ IF paymentsTable /\ ok /\ Accepts(PaymentRow(f))
     THEN /\ payments' = InsertPayment(PaymentRow(f))
          /\ wh' = Leave(f)
          /\ resp' = Acked(f, "ok")
     ELSE /\ wh' = Move(f, "create")
          /\ UNCHANGED <<payments, resp>>
  /\ UNCHANGED <<rev, tmp, socialVars, catalogVars, clock, authVars, paymentsTable, webhookSecret>>

\* part_005 205-212: CREATE TABLE IF NOT EXISTS payments answers
WebhookCreateTable(f, ok) ==
  /\ rev = "s3"
  /\ BagIn(f, wh) /\ f.pc = "create"
  /\ IF ok
     THEN /\ paymentsTable' = TRUE
          /\ wh' = Move(f, "retry")
          /\ UNCHANGED resp
     ELSE /\ wh' = Leave(f)
          /\ resp' = Acked(f, "logged")
          /\ UNCHANGED paymentsTable
  /\ UNCHANGED <<rev, tmp, socialVars, catalogVars, clock, authVars, payments, webhookSecret>>

\* part_005 213-220: the second INSERT answers
WebhookRetry(f, ok) ==
  /\ rev = "s3"
  /\ BagIn(f, wh) /\ f.pc = "retry"
  /\ IF paymentsTable /\ ok /\ Accepts(PaymentRow(f))
     THEN /\ payments' = InsertPayment(PaymentRow(f))
          /\ resp' = Acked(f, "ok")
     ELSE /\ resp' = Acked(f, "logged")
          /\ UNCHANGED payments
  /\ wh' = Leave(f)
  /\ UNCHANGED <<rev, tmp, socialVars, catalogVars, clock, authVars, paymentsTable, webhookSecret>>

\* appData.price_cents || 199: a stored price of 0 is falsy
PriceOrDefault(price_cents) ==
  IF price_cents = 0 THEN DefaultPriceCents ELSE price_cents
\* The session stripe.checkout.sessions.create is asked for:
\* metadata: { appId: String(appId) } and unit_amount: price
CheckoutSession(appId, price) ==
  [metadata |-> Meta(Digits(appId)), unit_amount |-> price]
\* app.post('/api/create-checkout-session'), part_005 144-175.  Stripe takes
\* no negative unit_amount, and may fail for its own reasons.
CheckoutS3(q) ==
  /\ rev = "s3"
  /\ IF q.fail = "db"
     THEN resp' = Response("checkout", 500, "db", FALSE, <<>>, NoBody)
     ELSE IF RowsWithId(apps, q.appId) = {}
     THEN resp' = Response("checkout", 404, "notfound", FALSE, <<>>, NoBody)
     ELSE LET appData == RowOf(apps, q.appId)
              price == PriceOrDefault(appData.price_cents)
          IN IF q.fail = "stripe" \/ price < 0
             THEN resp' = Response("checkout", 500, "stripe", FALSE, <<>>, NoBody)
             ELSE resp' = Response("checkout", 200, "ok", FALSE, <<>>,
                                   CheckoutSession(q.appId, price))
  /\ UNCHANGED <<rev, tmp, socialVars, catalogVars, clock, authVars, ledgerVars>>
\* --------------------------------------------------------------------- time
Tick ==
  /\ clock < MaxClock
  /\ clock' = clock + 1
  /\ UNCHANGED <<rev, tmp, socialVars, catalogVars, authVars, resp, ledgerVars>>

\* ----------------------------------------------------------------- requests
Files == {NoFile, File(<<"a", " ", "b">>)}
Images == {NoFile, File(<<"i">>)}
AppIds == 1..MaxApps

\* A request without a session cookie is turned away before its body is read:
\* one body stands for them all.
CreateS3Reqs ==
  [cookie : {TRUE}, html : {FALSE}, nombre : {Undefined, "", "Chess"},
   descripcion : {Undefined}, price_cents : {Digits(500), TextNum},
   archivo : Files, imagen : Images, fail : {"none", "archivo", "imagen", "db"}]
  \cup
  [cookie : {FALSE}, html : BOOLEAN, nombre : {"Chess"},
   descripcion : {Undefined}, price_cents : {NoNum},
   archivo : Files \ {NoFile}, imagen : {NoFile}, fail : {"none"}]
UpdateS3Reqs ==
  [cookie : {TRUE}, html : {FALSE}, id : AppIds, nombre : {Undefined, "", "Go"},
   descripcion : {Undefined}, price_cents : {NoNum, JsonNum(0), TextNum},
   fail : {"none", "db"}]
  \cup
  [cookie : {FALSE}, html : BOOLEAN, id : AppIds, nombre : {"Go"},
   descripcion : {Undefined}, price_cents : {NoNum}, fail : {"none"}]
DeleteS3Reqs ==
  [cookie : {TRUE}, html : {FALSE}, id : AppIds, fail : {"none", "db"}]
  \cup [cookie : {FALSE}, html : BOOLEAN, id : AppIds, fail : {"none"}]
ListS3Reqs == [cookie : BOOLEAN, fail : {"none", "db"}]
DownloadS3Reqs == [cookie : BOOLEAN, id : AppIds, fail : {"none", "db", "sign"}]

CreateAReqs ==
  [name : {Undefined, "", "Chess"}, description : {Undefined},
   category_id : {NoNum}, is_paid : {"true"},
   image : Images, apk : Files, fail : {"none", "image", "apk"}]
UpdateAReqs ==
  [id : AppIds, name : {Undefined, " ", "Go"}, description : {Undefined},
   category_id : {NoNum}, is_paid : {Undefined},
   image : Images, apk : Files, fail : {"none", "apk"}]
DeleteAReqs == [id : AppIds, fail : {"none", "select", "destroy", "db"}]
ListAReqs == [fail : {"none", "db"}]

CreateBReqs ==
  [name : {Undefined, "Chess"}, description : {Undefined},
   image : Images, apk : Files, fail : {"none", "image", "apk", "db"}]
UpdateBReqs ==
  [id : AppIds, name : {Undefined, "Go"}, description : {Undefined, ""},
   image : Images, apk : Files, fail : {"none", "select", "image", "apk", "db"}]
DeleteBReqs == [id : AppIds, fail : {"none", "select", "destroy", "db"}]
CreateV2Reqs ==
  [name : {Undefined, "Chess"}, description : {Undefined},
   category : {Undefined}, is_paid : {Undefined, "true"},
   image : Images, apk : Files, fail : {"none", "image", "apk", "db"}]
UpdateV2Reqs ==
  [id : AppIds, name : {Undefined, "Go"}, description : {Undefined},
   category : {Undefined, "tools"}, is_paid : {Undefined, "false"},
   image : Images, apk : Files, fail : {"none", "select", "image", "apk", "db"}]
DeleteV2Reqs == [id : AppIds, fail : {"none", "db"}]
CreateP3Reqs ==
  [name : {Undefined, "", "Chess"}, description : {Undefined, "d"},
   image : Images, file : Files, fail : {"none", "image", "file", "both", "db"}]

\* ------------------------------------------------------------ specification
InitRev(r) ==
  /\ rev = r
  /\ apps = <<>>
  /\ nextId = 1
  /\ objects = {}
  /\ nextAsset = 0
  /\ clock = 0
  /\ users = {}
  /\ session = NoUser
  /\ resp = NoResponse
  /\ payments = <<>>
  /\ paymentsTable = FALSE
  /\ wh = EmptyBag
  /\ ca = <<>>
  /\ tmp = {}
  /\ categories = <<>>
  /\ cq = <<>>
  /\ ratings = <<>>
  /\ reviews = <<>>
  /\ appRating = [id \in 1..MaxApps |-> NullNum]
  /\ rq = <<>>

Init == /\ \E r \in Revisions : InitRev(r)
        /\ webhookSecret = TRUE

Next ==
  \/ Tick
  \/ \E q \in CreateUserReqs : CreateUserS3(q)
  \/ \E q \in LoginReqs : LoginS3(q)
  \/ LogoutS3
  \/ \E q \in CreateS3Reqs : CreateS3(q)
  \/ \E q \in UpdateS3Reqs : UpdateS3(q)
  \/ \E q \in DeleteS3Reqs : DeleteS3(q)
  \/ \E q \in ListS3Reqs : ListS3(q)
  \/ \E q \in DownloadS3Reqs : DownloadS3(q)
  \/ \E q \in CreateAReqs : CreateA(q)
  \/ \E q \in UpdateAReqs : UpdateA(q)
  \/ \E q \in DeleteAReqs : DeleteA(q)
  \/ \E q \in ListAReqs : ListA(q)
  \/ \E q \in CreateBReqs : CreateB(q)
  \/ \E q \in UpdateBReqs : UpdateB(q)
  \/ \E q \in DeleteBReqs : DeleteB(q)
  \/ \E q \in CreateV2Reqs : CreateV2(q)
  \/ \E q \in UpdateV2Reqs : UpdateV2(q)
  \/ \E q \in DeleteV2Reqs : DeleteV2(q)
  \/ \E q \in CreateP3Reqs : CreateP3(q)

Spec == Init /\ [][Next]_vars

InitWebhook == /\ InitRev("s3")
               /\ webhookSecret \in BOOLEAN

NextWebhook ==
  \/ \E q \in WebhookReqs : WebhookReceive(q)
  \/ \E f \in BagToSet(wh), ok \in BOOLEAN : WebhookInsert(f, ok)
  \/ \E f \in BagToSet(wh), ok \in BOOLEAN : WebhookCreateTable(f, ok)
  \/ \E f \in BagToSet(wh), ok \in BOOLEAN : WebhookRetry(f, ok)

SpecWebhook == InitWebhook /\ [][NextWebhook]_vars


\* ------------------------------------------------ the store of revision s3
\* The catalog, the checkout and the ledger of part_005 together, for one
\* admin and requests that pass every upload.
Prices == {0, 500, 0 - 5}
StoreUserReqs == [username : {"admin"}, password : {"pw"}]
StoreLoginReqs == [username : {"admin"}, password : {"pw"}]
StoreCreateReqs ==
  [cookie : {TRUE}, html : {FALSE}, nombre : {"Chess"}, descripcion : {Undefined},
   price_cents : {Digits(n) : n \in Prices} \cup {TextNum},
   archivo : {File(<<"a">>)}, imagen : {NoFile}, fail : {"none"}]
StoreUpdateReqs ==
  [cookie : {TRUE}, html : {FALSE}, id : AppIds, nombre : {"Chess"},
   descripcion : {NULL}, price_cents : {JsonNum(n) : n \in Prices} \cup {TextNum},
   fail : {"none"}]
StoreDeleteReqs == [cookie : {TRUE}, html : {FALSE}, id : AppIds, fail : {"none"}]
CheckoutReqs == [appId : AppIds, fail : {"none", "db", "stripe"}]
StoreWebhookReqs ==
  [type : {CheckoutCompleted}, id : SessionIds, metadata : {Meta(Digits(1))},
   email : {Undefined}, sig : {TRUE}]

NextStore ==
  \/ \E q \in StoreUserReqs : CreateUserS3(q)
  \/ \E q \in StoreLoginReqs : LoginS3(q)
  \/ \E q \in StoreCreateReqs : CreateS3(q)
  \/ \E q \in StoreUpdateReqs : UpdateS3(q)
  \/ \E q \in StoreDeleteReqs : DeleteS3(q)
  \/ \E q \in CheckoutReqs : CheckoutS3(q)
  \/ \E q \in StoreWebhookReqs : WebhookReceive(q)
  \/ \E f \in BagToSet(wh), ok \in BOOLEAN : WebhookInsert(f, ok)
  \/ \E f \in BagToSet(wh), ok \in BOOLEAN : WebhookCreateTable(f, ok)
  \/ \E f \in BagToSet(wh), ok \in BOOLEAN : WebhookRetry(f, ok)

SpecStore == InitRev("s3") /\ webhookSecret = TRUE /\ [][NextStore]_vars
\* ------------------------------------------------ admin creation (part_003)
NextAdmin ==
  \/ CreateAdminArrive
  \/ \E i \in DOMAIN ca, ok \in BOOLEAN : CreateAdminSelect(i, ok)
  \/ \E i \in DOMAIN ca, ok \in BOOLEAN : CreateAdminInsert(i, ok)

SpecAdmin == InitRev("p3") /\ webhookSecret = TRUE /\ [][NextAdmin]_vars
\* ------------------------------------------------- sessions (part_005 and B)
\* app.get('/api/admin/session'), part_005 261-264
SessionS3(q) ==
  /\ rev = "s3"
  /\ resp' = Response("session", 200, "ok", Authed(q), <<>>, [logged |-> Authed(q)])
  /\ UNCHANGED <<rev, tmp, socialVars, catalogVars, clock, authVars, ledgerVars>>

AdminRowB == [username |-> "admin", password_hash |-> Hash("admin123"), role |-> "admin"]
\* app.get("/create-admin"), server.js 320-344
CreateAdminB(ok) ==
  /\ rev = "B"
  /\ IF ~ok
     THEN /\ resp' = Response("create-admin", 500, "db", FALSE, <<>>, NoBody)
          /\ UNCHANGED users
     ELSE IF Admins # {}
     THEN /\ resp' = Response("create-admin", 200, "exists", FALSE, <<>>, NoBody)
          /\ UNCHANGED users
     ELSE /\ users' = users \cup {AdminRowB}
          /\ resp' = Response("create-admin", 200, "created", FALSE, <<>>, NoBody)
  /\ UNCHANGED <<rev, tmp, socialVars, catalogVars, clock, session, ca, ledgerVars>>

\* The credentials of a login request are those of a stored user.
ValidLogin(q) ==
  \E u \in users : u.username = q.username /\ Compare(q.password, u.password_hash)
\* app.post("/api/login"), server.js 349-380.  The stored hash is bcrypt's
\* ("$2..."): the password is compared with bcrypt.compare.  A refused login
\* is answered with res.json, status 200, and success: false.
LoginB(q) ==
  /\ rev = "B"
  /\ IF q.fail = "db"
     THEN /\ resp' = Response("login", 500, "db", FALSE, <<>>, NoBody)
          /\ UNCHANGED session
     ELSE IF ~ValidLogin(q)
     THEN /\ resp' = Response("login", 200, "refused", FALSE, <<>>, [success |-> FALSE])
          /\ UNCHANGED session
     ELSE /\ session' = q.username
          /\ resp' = Response("login", 200, "ok", TRUE, <<>>, [success |-> TRUE])
  /\ UNCHANGED <<rev, tmp, socialVars, catalogVars, clock, users, ca, ledgerVars>>

SessionUserReqs == [username : {"admin", "bob"}, password : Passwords]
SessionLoginReqs == [username : {"admin", "bob", "eve"}, password : Passwords]
SessionReqs == [cookie : BOOLEAN]
LoginBReqs ==
  [username : {"admin", "eve"}, password : {"admin123", "bad"}, fail : {"none", "db"}]

InitSession == \E r \in {"s3", "B"} : InitRev(r) /\ webhookSecret = TRUE
NextSession ==
  \/ \E q \in SessionUserReqs : CreateUserS3(q)
  \/ \E q \in SessionLoginReqs : LoginS3(q)
  \/ LogoutS3
  \/ \E q \in SessionReqs : SessionS3(q)
  \/ \E ok \in BOOLEAN : CreateAdminB(ok)
  \/ \E q \in LoginBReqs : LoginB(q)

SpecSession == InitSession /\ [][NextSession]_vars
\* ------------------------------------------------- ratings and reviews (v2)
\* A NUMERIC(_, 1) value, held as its number of tenths.
Tenths(n) == [t |-> "tenths", n |-> n]
RECURSIVE SumRatings(_)
SumRatings(rows) ==
  IF rows = <<>> THEN 0 ELSE Head(rows).rating + SumRatings(Tail(rows))
OfApp(rows, id) == SelectSeq(rows, LAMBDA r : r.app_id = id)
OfPair(rows, user, id) ==
  SelectSeq(rows, LAMBDA r : r.user_id = user /\ r.app_id = id)
\* ROUND(AVG(rating), 1): NULL over no rows, else rounded half up
RoundedAvg(rows) ==
  IF rows = <<>> THEN NullNum
  ELSE Tenths((20 * SumRatings(rows) + Len(rows)) \div (2 * Len(rows)))
\* part_004 313: avgRes.rows[0].avg || 0
AvgOrZero(avg) == IF avg = NullNum THEN Tenths(0) ELSE avg
\* UPDATE apps SET rating = $1 WHERE id = $2
SetRating(id, avg) ==
  IF \E i \in DOMAIN apps : apps[i].id = id
  THEN [appRating EXCEPT ![id] = avg]
  ELSE appRating
RatingAnswer(kind, status, why) ==
  Response(kind, status, why, FALSE, <<>>, NoBody)
RatingsInFlight == {i \in DOMAIN rq : rq[i].pc \notin {"done", "refused", "failed"}}

\* app.post("/api/ratings"), part_004 280-287: the request arrives and is
\* validated; a request that passes names an app of the catalog
RatingArrive(q) ==
  /\ rev = "v2"
  /\ Len(rq) < MaxRatingReqs
  /\ IF q.user_id = 0 \/ q.app_id = 0 \/ q.rating = 0
     THEN /\ rq' = Append(rq, [kind |-> "rating", user_id |-> q.user_id,
                               app_id |-> q.app_id, rating |-> q.rating,
                               pc |-> "refused", avg |-> NullNum])
          /\ resp' = RatingAnswer("rating", 400, "validation")
     ELSE /\ \E i \in DOMAIN apps : apps[i].id = q.app_id
          /\ rq' = Append(rq, [kind |-> "rating", user_id |-> q.user_id,
                               app_id |-> q.app_id, rating |-> q.rating,
                               pc |-> "select", avg |-> NullNum])
          /\ UNCHANGED resp
  /\ UNCHANGED <<rev, tmp, categories, cq, ratings, reviews, appRating,
                 catalogVars, clock, authVars, ledgerVars>>
\* part_004 289-292: SELECT id FROM ratings WHERE user_id AND app_id
RatingSelect(i) ==
  /\ rev = "v2"
  /\ rq[i].kind = "rating"
  /\ rq[i].pc = "select"
  /\ rq' = [rq EXCEPT ![i].pc =
              IF OfPair(ratings, rq[i].user_id, rq[i].app_id) # <<>>
              THEN "update" ELSE "insert"]
  /\ UNCHANGED <<rev, tmp, categories, cq, ratings, reviews, appRating, resp,
                 catalogVars, clock, authVars, ledgerVars>>
\* part_004 294-299: UPDATE ratings SET rating WHERE user_id AND app_id
RatingUpdate(i) ==
  /\ rev = "v2"
  /\ rq[i].kind = "rating"
  /\ rq[i].pc = "update"
  /\ ratings' = [k \in DOMAIN ratings |->
                   IF ratings[k].user_id = rq[i].user_id
                      /\ ratings[k].app_id = rq[i].app_id
                   THEN [ratings[k] EXCEPT !.rating = rq[i].rating]
                   ELSE ratings[k]]
  /\ rq' = [rq EXCEPT ![i].pc = "avg"]
  /\ UNCHANGED <<rev, tmp, categories, cq, reviews, appRating, resp,
                 catalogVars, clock, authVars, ledgerVars>>
\* part_004 300-306: INSERT INTO ratings.  The table's definition is not in
\* the source: when a row of the pair is already stored, the statement adds
\* a second row (no constraint) or fails (a UNIQUE constraint on the pair),
\* and the catch at 319-322 answers 500.
RatingInsert(i, unique) ==
  /\ rev = "v2"
  /\ rq[i].kind = "rating"
  /\ rq[i].pc = "insert"
  /\ IF unique /\ OfPair(ratings, rq[i].user_id, rq[i].app_id) # <<>>
     THEN /\ rq' = [rq EXCEPT ![i].pc = "failed"]
          /\ resp' = RatingAnswer("rating", 500, "unique")
          /\ UNCHANGED ratings
     ELSE /\ ratings' = Append(ratings, [user_id |-> rq[i].user_id,
                                         app_id |-> rq[i].app_id,
                                         rating |-> rq[i].rating])
          /\ rq' = [rq EXCEPT ![i].pc = "avg"]
          /\ UNCHANGED resp
  /\ UNCHANGED <<rev, tmp, categories, cq, reviews, appRating,
                 catalogVars, clock, authVars, ledgerVars>>
\* part_004 308-313: SELECT ROUND(AVG(rating)::numeric, 1) FROM ratings
RatingAvg(i) ==
  /\ rev = "v2"
  /\ rq[i].kind = "rating"
  /\ rq[i].pc = "avg"
  /\ rq' = [rq EXCEPT ![i].pc = "set",
                      ![i].avg = AvgOrZero(RoundedAvg(OfApp(ratings, rq[i].app_id)))]
  /\ UNCHANGED <<rev, tmp, categories, cq, ratings, reviews, appRating, resp,
                 catalogVars, clock, authVars, ledgerVars>>
\* part_004 315-317: UPDATE apps SET rating, then the answer
RatingSet(i) ==
  /\ rev = "v2"
  /\ rq[i].kind = "rating"
  /\ rq[i].pc = "set"
  /\ appRating' = SetRating(rq[i].app_id, rq[i].avg)
  /\ rq' = [rq EXCEPT ![i].pc = "done"]
  /\ resp' = RatingAnswer("rating", 200, "ok")
  /\ UNCHANGED <<rev, tmp, categories, cq, ratings, reviews,
                 catalogVars, clock, authVars, ledgerVars>>

\* app.post("/api/apps/:id/reviews"), part_004 250-256
ReviewArrive(q) ==
  /\ rev = "v2"
  /\ Len(rq) < MaxRatingReqs
  /\ IF q.rating = 0 \/ q.rating < 1 \/ q.rating > 5
     THEN /\ rq' = Append(rq, [kind |-> "review", user_id |-> 0,
                               app_id |-> q.app_id, rating |-> q.rating,
                               pc |-> "refused", avg |-> NullNum])
          /\ resp' = RatingAnswer("review", 400, "validation")
     ELSE /\ \E i \in DOMAIN apps : apps[i].id = q.app_id
          /\ rq' = Append(rq, [kind |-> "review", user_id |-> 0,
                               app_id |-> q.app_id, rating |-> q.rating,
                               pc |-> "insert", avg |-> NullNum])
          /\ UNCHANGED resp
  /\ UNCHANGED <<rev, tmp, categories, cq, ratings, reviews, appRating,
                 catalogVars, clock, authVars, ledgerVars>>
\* part_004 258-261: INSERT INTO reviews
ReviewInsert(i) ==
  /\ rev = "v2"
  /\ rq[i].kind = "review"
  /\ rq[i].pc = "insert"
  /\ reviews' = Append(reviews, [app_id |-> rq[i].app_id,
                                 rating |-> rq[i].rating])
  /\ rq' = [rq EXCEPT ![i].pc = "avg"]
  /\ UNCHANGED <<rev, tmp, categories, cq, ratings, appRating, resp,
                 catalogVars, clock, authVars, ledgerVars>>
\* part_004 263-266: SELECT ROUND(AVG(rating), 1) FROM reviews
ReviewAvg(i) ==
  /\ rev = "v2"
  /\ rq[i].kind = "review"
  /\ rq[i].pc = "avg"
  /\ rq' = [rq EXCEPT ![i].pc = "set",
                      ![i].avg = RoundedAvg(OfApp(reviews, rq[i].app_id))]
  /\ UNCHANGED <<rev, tmp, categories, cq, ratings, reviews, appRating, resp,
                 catalogVars, clock, authVars, ledgerVars>>
\* part_004 267-269: UPDATE apps SET rating, then the answer
ReviewSet(i) ==
  /\ rev = "v2"
  /\ rq[i].kind = "review"
  /\ rq[i].pc = "set"
  /\ appRating' = SetRating(rq[i].app_id, rq[i].avg)
  /\ rq' = [rq EXCEPT ![i].pc = "done"]
  /\ resp' = RatingAnswer("review", 200, "ok")
  /\ UNCHANGED <<rev, tmp, categories, cq, ratings, reviews,
                 catalogVars, clock, authVars, ledgerVars>>

\* JSON numbers of a request body; 0 stands for every falsy value.
RatingReqs == [user_id : {0, 1, 2}, app_id : {0} \cup AppIds, rating : {0, 2, 5}]
ReviewReqs == [app_id : AppIds, rating : {0, 4, 6}]
RatedAppReqs ==
  [name : {"Chess"}, description : {Undefined}, category : {Undefined},
   is_paid : {Undefined}, image : {File(<<"a">>)}, apk : {File(<<"a">>)},
   fail : {"none"}]
NextRatings ==
  \/ \E q \in RatedAppReqs : CreateV2(q)
  \/ \E q \in RatingReqs : RatingArrive(q)
  \/ \E i \in DOMAIN rq : RatingSelect(i)
  \/ \E i \in DOMAIN rq : RatingUpdate(i)
  \/ \E i \in DOMAIN rq, unique \in BOOLEAN : RatingInsert(i, unique)
  \/ \E i \in DOMAIN rq : RatingAvg(i)
  \/ \E i \in DOMAIN rq : RatingSet(i)
  \/ \E q \in ReviewReqs : ReviewArrive(q)
  \/ \E i \in DOMAIN rq : ReviewInsert(i)
  \/ \E i \in DOMAIN rq : ReviewAvg(i)
  \/ \E i \in DOMAIN rq : ReviewSet(i)
SpecRatings == InitRev("v2") /\ webhookSecret = TRUE /\ [][NextRatings]_vars
\* ------------------------------------------- categories (server.js 74-102)
\* A text of a request body, given as its characters.
Text(chars) == [t |-> "text", s |-> chars]
RECURSIVE TrimStart(_)
TrimStart(s) ==
  IF s # <<>> /\ Head(s) = " " THEN TrimStart(Tail(s)) ELSE s
RECURSIVE TrimEnd(_)
TrimEnd(s) ==
  IF s # <<>> /\ s[Len(s)] = " " THEN TrimEnd(SubSeq(s, 1, Len(s) - 1)) ELSE s
\* String.prototype.trim
Trim(s) == TrimEnd(TrimStart(s))
\* server.js 92: !name || !String(name).trim()
NameMissing(name) ==
  \/ name = NoNum
  \/ name.t = "number" /\ name.n = 0
  \/ name.t = "text" /\ Trim(name.s) = <<>>
\* INSERT INTO categories (name) VALUES ($1): a row is added whatever is stored
AppendCategory(rows, name) == Append(rows, [name |-> name])
\* server.js 93: INSERT ... ON CONFLICT (name) DO NOTHING, one statement of
\* PostgreSQL, which the conflict target shows to have a unique index on name
InsertCategory(rows, name) ==
  IF \E k \in DOMAIN rows : rows[k].name = name
  THEN rows
  ELSE Append(rows, [name |-> name])
CategoryAnswer(status, why, body) ==
  Response("category", status, why, FALSE, <<>>, body)

\* app.post("/api/categories"), server.js 89-92: the request is validated
CategoryArrive(q) ==
  /\ rev = "A"
  /\ Len(cq) < MaxCategoryReqs
  /\ IF NameMissing(q.name)
     THEN /\ cq' = Append(cq, [name |-> q.name, pc |-> "refused"])
          /\ resp' = CategoryAnswer(400, "validation", NoBody)
     ELSE IF q.name.t # "text"
     THEN \* name.trim is not a function: the catch at 98-101 answers
          /\ cq' = Append(cq, [name |-> q.name, pc |-> "failed"])
          /\ resp' = CategoryAnswer(500, "TypeError", NoBody)
     ELSE /\ cq' = Append(cq, [name |-> q.name, pc |-> "insert"])
          /\ UNCHANGED resp
  /\ UNCHANGED <<rev, tmp, categories, ratings, reviews, appRating, rq,
                 catalogVars, clock, authVars, ledgerVars>>
\* server.js 93-101: the INSERT answers
CategoryInsert(i, ok) ==
  /\ rev = "A"
  /\ cq[i].pc = "insert"
  /\ LET inserted == InsertCategory(categories, Trim(cq[i].name.s))
     IN
     IF ~ok
     THEN /\ cq' = [cq EXCEPT ![i].pc = "failed"]
          /\ resp' = CategoryAnswer(500, "db", NoBody)
          /\ UNCHANGED categories
     ELSE IF Len(inserted) = Len(categories)
     THEN /\ cq' = [cq EXCEPT ![i].pc = "conflict"]
          /\ resp' = CategoryAnswer(409, "exists", NoBody)
          /\ categories' = inserted
     ELSE /\ cq' = [cq EXCEPT ![i].pc = "created"]
          /\ resp' = CategoryAnswer(201, "created", inserted[Len(inserted)])
          /\ categories' = inserted
  /\ UNCHANGED <<rev, tmp, ratings, reviews, appRating, rq,
                 catalogVars, clock, authVars, ledgerVars>>

CategoryReqs ==
  [name : {NoNum, JsonNum(5), Text(<<>>), Text(<<" ">>), Text(<<"a">>),
           Text(<<" ", "a">>), Text(<<"a", " ">>), Text(<<"b">>)}]
NextCategories ==
  \/ \E q \in CategoryReqs : CategoryArrive(q)
  \/ \E i \in DOMAIN cq, ok \in BOOLEAN : CategoryInsert(i, ok)
SpecCategories == InitRev("A") /\ webhookSecret = TRUE /\ [][NextCategories]_vars
\* ------------------------------------------------------------------- claims
\* A step in which a handler answered or wrote: every step but Tick and the
\* intermediate steps of a webhook delivery.
Answered == resp' # resp

\* C1: after any deliveries of a checkout-completed webhook, in any
\* interleaving, the ledger holds at most one row for each session id (later
\* deliveries for the same session write nothing).
C1_OneRowPerSession ==
  \A i, j \in DOMAIN payments :
     payments[i].session_id = payments[j].session_id => i = j

\* C2: a webhook request that does not pass signature verification never
\* inserts a row in the ledger and is answered with status 400.
C2_ForgedRejected ==
  [][/\ \A f \in BagToSet(wh) :
          (~f.sig /\ wh' = Leave(f)) => payments' = payments
     /\ (Answered /\ resp'.kind = "webhook" /\ ~resp'.body.sig)
          => resp'.status = 400]_vars


\* A create request one of whose uploads the object store refuses.
UploadFailsS3(q) ==
  /\ Authed(q) /\ Present(q.archivo)
  /\ q.fail = "archivo" \/ (q.fail = "imagen" /\ Present(q.imagen))
UploadFailsP3(q) ==
  /\ Present(q.image)
  /\ q.fail \in {"image", "both"} \/ (q.fail = "file" /\ Present(q.file))
UploadFailsCloud(q) ==
  \/ q.fail = "image" /\ Present(q.image)
  \/ q.fail = "apk" /\ Present(q.apk)
NoRowInserted == resp'.status >= 400 /\ apps' = apps /\ nextId' = nextId

\* C8: when the upload of the artifact or of the image fails during a create
\* request, the request is answered with an error and no app row is inserted:
\* a step that inserts a row or answers without an error is not the step of
\* any create request whose upload fails.
C8_UploadFailureNoRow ==
  [][\/ NoRowInserted
     \/ /\ rev = "s3" => \A q \in CreateS3Reqs : ~(UploadFailsS3(q) /\ CreateS3(q))
        /\ rev = "p3" => \A q \in CreateP3Reqs : ~(UploadFailsP3(q) /\ CreateP3(q))
        /\ rev = "A" => \A q \in CreateAReqs : ~(UploadFailsCloud(q) /\ CreateA(q))
        /\ rev = "B" => \A q \in CreateBReqs : ~(UploadFailsCloud(q) /\ CreateB(q))
        /\ rev = "v2" => \A q \in CreateV2Reqs : ~(UploadFailsCloud(q) /\ CreateV2(q))
    ]_vars

\* What an update step leaves alone when its request carries these files
\* (NoFile: not carried).
FilesKept(image, apk) ==
  /\ ~Present(image) =>
       /\ \A o \in objects' \ objects : o.path # ImageFolder
       /\ \A k \in DOMAIN resp'.ups : resp'.ups[k] # "image"
       /\ DOMAIN apps' = DOMAIN apps
       /\ \A i \in DOMAIN apps : apps'[i].image = apps[i].image
  /\ ~Present(apk) =>
       /\ \A o \in objects' \ objects : o.path # RawFolder
       /\ \A k \in DOMAIN resp'.ups : resp'.ups[k] # "apk"
       /\ DOMAIN apps' = DOMAIN apps
       /\ \A i \in DOMAIN apps : apps'[i].apk = apps[i].apk
Carrying(reqs, image, apk) == {q \in reqs : q.image = image /\ q.apk = apk}

\* A step that breaks FilesKept for some files is not the step of an update
\* request carrying those files.
UploadsOnlyCarried ==
  rev \in {"A", "B", "v2"} =>
    \A image \in Images, apk \in Files :
       \/ FilesKept(image, apk)
       \/ /\ rev = "A" => \A q \in Carrying(UpdateAReqs, image, apk) : ~UpdateA(q)
          /\ rev = "B" => \A q \in Carrying(UpdateBReqs, image, apk) : ~UpdateB(q)
          /\ rev = "v2" => \A q \in Carrying(UpdateV2Reqs, image, apk) : ~UpdateV2(q)

\* C7: an update request uploads only the files it carries; for a file it
\* does not carry no upload is made and every row's stored reference of that
\* kind is the same after the update as before it.
C7_UpdateUploadsOnlyCarried == [][UploadsOnlyCarried]_vars


\* C7 witness: a state in which an update carried only the apk: the third upload replaced
\* the row's apk, and the image reference of the create is still stored.
C7_Witness ==
  /\ rev \in {"A", "B", "v2"}
  /\ resp.kind = "update" /\ resp.status = 200 /\ resp.ups = <<"apk">>
  /\ \E i \in DOMAIN apps :
        /\ apps[i].image = SecureUrl(Asset(ImageFolder, 1))
        /\ apps[i].apk = SecureUrl(Asset(RawFolder, 3))

\* C8 witness: a create was answered with an error because the image
\* upload failed after the artifact was stored, and the catalog is empty.
C8_Witness ==
  /\ rev = "s3"
  /\ resp.kind = "create" /\ resp.status = 500 /\ resp.why = "upload"
  /\ resp.ups = <<"archivo", "imagen">>
  /\ objects # {} /\ apps = <<>>

\* C3: a download link is issued only to an authenticated requester or to one
\* for whom a payment for that app is recorded.
C3_DownloadGated ==
  (resp.kind = "download" /\ resp.status = 200) =>
     \/ resp.authed
     \/ \E i \in DOMAIN payments : payments[i].app_id = Int32(resp.body.id)

\* The request was refused as unauthenticated and nothing was written.
Refused == resp'.status = 401 /\ apps' = apps /\ objects' = objects
AdminNeedsLogin ==
  /\ rev = "s3" =>
       /\ \A q \in CreateS3Reqs : (~Authed(q) /\ CreateS3(q)) => Refused
       /\ \A q \in UpdateS3Reqs : (~Authed(q) /\ UpdateS3(q)) => Refused
       /\ \A q \in DeleteS3Reqs : (~Authed(q) /\ DeleteS3(q)) => Refused
  /\ rev = "A" =>
       /\ \A q \in CreateAReqs : (session = NoUser /\ CreateA(q)) => Refused
       /\ \A q \in UpdateAReqs : (session = NoUser /\ UpdateA(q)) => Refused
       /\ \A q \in DeleteAReqs : (session = NoUser /\ DeleteA(q)) => Refused
\* C4: a create, update or delete request on the admin routes in a session
\* with no logged-in user is answered 401 and leaves the catalog rows and the
\* object store unchanged.
C4_AdminNeedsLogin == [][AdminNeedsLogin]_vars

\* C5: every app row has a non-empty name and a non-null artifact reference.
C5_NameAndArtifact ==
  \A i \in DOMAIN apps :
     /\ NameOf(apps[i]) \notin {NULL, Undefined, ""}
     /\ ArtifactOf(apps[i]) # NoUrl

\* What an update leaves alone for the metadata fields its request omits.
MetaKeptS3(q) ==
  /\ DOMAIN apps' = DOMAIN apps
  /\ \A i \in DOMAIN apps :
        /\ q.nombre = Undefined => apps'[i].nombre = apps[i].nombre
        /\ q.descripcion = Undefined => apps'[i].descripcion = apps[i].descripcion
        /\ q.price_cents = NoNum => apps'[i].price_cents = apps[i].price_cents
MetaKeptA(q) ==
  /\ DOMAIN apps' = DOMAIN apps
  /\ \A i \in DOMAIN apps :
        /\ q.name = Undefined => apps'[i].name = apps[i].name
        /\ q.description = Undefined => apps'[i].description = apps[i].description
        /\ q.category_id = NoNum => apps'[i].category_id = apps[i].category_id
        /\ q.is_paid = Undefined => apps'[i].is_paid = apps[i].is_paid
UpdateKeepsOmitted ==
  /\ rev = "s3" => \A q \in UpdateS3Reqs : UpdateS3(q) => MetaKeptS3(q)
  /\ rev = "A" => \A q \in UpdateAReqs : UpdateA(q) => MetaKeptA(q)
\* C6: an update applies only the metadata fields its request supplies; every
\* field it omits has the same stored value after the update as before it.
C6_UpdateKeepsOmitted == [][UpdateKeepsOmitted]_vars

\* The request was refused as invalid before any upload, and no row was added.
Invalid ==
  /\ resp'.status \in 400..499
  /\ objects' = objects /\ resp'.ups = <<>>
  /\ Len(apps') = Len(apps)
CreateValidates ==
  /\ rev = "s3" =>
       \A q \in CreateS3Reqs :
          (/\ Authed(q)
           /\ ~Truthy(q.nombre) \/ ~Present(q.archivo)
           /\ CreateS3(q)) => Invalid
  /\ rev = "A" =>
       \A q \in CreateAReqs :
          (/\ ~Truthy(q.name) \/ ~Present(q.apk)
           /\ CreateA(q)) => Invalid
\* C9: a create request with an empty or missing name, or without an artifact
\* file, is refused with a 4xx before any upload, and the number of rows is
\* unchanged.
C9_CreateValidates == [][CreateValidates]_vars

CreatedFirst ==
  /\ rev = "s3" =>
       \A q \in CreateS3Reqs :
          (/\ Truthy(q.nombre) /\ Present(q.archivo)
           /\ CreateS3(q) /\ resp'.status = 200) =>
            /\ resp'.body.nombre = q.nombre
            /\ resp'.body.archivo.key.name = Sanitize(q.archivo.originalname)
            /\ resp'.body.archivo.key \in objects'
            /\ \A rows \in ListResultsS3' : rows[1] = resp'.body
  /\ rev = "A" =>
       \A q \in CreateAReqs :
          (/\ Truthy(q.name) /\ Present(q.apk)
           /\ CreateA(q) /\ resp'.status = 201) =>
            /\ resp'.body.name = q.name
            /\ resp'.body.apk.asset \in objects'
            /\ \A rows \in ListResultsA' : rows[1] = resp'.body
\* C10: a successful create of a valid (name, artifact) pair produces a row
\* whose name and artifact reference match the input, and a list request made
\* immediately afterwards returns that row first.
C10_CreatedFirst == [][CreatedFirst]_vars

\* The order the catalog contract asks of a list: creation time descending,
\* and among rows of one creation time the larger id first.
StableOrder(rows) ==
  \A i, j \in DOMAIN rows :
     i < j => \/ rows[i].created_at > rows[j].created_at
              \/ /\ rows[i].created_at = rows[j].created_at
                 /\ rows[i].id > rows[j].id
\* C11: every app list that is returned is in the stable total order, by
\* creation time descending and, for two apps of one creation time, the
\* larger id first (so that two list requests on one catalog state return
\* the same sequence).
C11_StableOrder ==
  (rev \in {"s3", "A"} /\ resp.kind = "list" /\ resp.status = 200)
     => StableOrder(resp.body)

NotFoundNoChange ==
  /\ resp'.status = 404
  /\ resp'.ups = <<>>
  /\ UNCHANGED catalogVars
UpdateAbsent ==
  /\ rev = "s3" =>
       \A q \in UpdateS3Reqs :
          (/\ requireLogin(q) = "next" /\ q.fail = "none"
           /\ RowsWithId(apps, q.id) = {}
           /\ UpdateS3(q)) => NotFoundNoChange
  /\ rev = "A" =>
       \A q \in UpdateAReqs :
          (/\ RowsWithId(apps, q.id) = {}
           /\ UpdateA(q)) => NotFoundNoChange
\* C12: an update request for an app id that is not in the catalog is
\* answered 404, attempts no object-store upload and leaves the catalog
\* unchanged; it is never answered with success.
C12_UpdateAbsent == [][UpdateAbsent]_vars

\* What a delete request for id must do: 404 and no change if the id is
\* absent, removal of exactly the rows of that id otherwise.
DeleteOutcome(id) ==
  IF RowsWithId(apps, id) = {}
  THEN resp'.status = 404 /\ apps' = apps
  ELSE resp'.status = 200 /\ apps' = WithoutId(apps, id)
DeleteExact ==
  /\ rev = "s3" =>
       \A q \in DeleteS3Reqs :
          (/\ requireLogin(q) = "next" /\ q.fail = "none"
           /\ DeleteS3(q)) => DeleteOutcome(q.id)
  /\ rev = "v2" =>
       \A q \in DeleteV2Reqs :
          (q.fail = "none" /\ DeleteV2(q)) => DeleteOutcome(q.id)
\* C13: a delete request for an app id that is not in the catalog is answered
\* 404 and leaves the catalog unchanged; a delete request for an existing id
\* removes exactly that row and no other.
C13_DeleteExact == [][DeleteExact]_vars

LedgerKept ==
  \A i \in DOMAIN payments :
     i \in DOMAIN payments' /\ payments'[i] = payments[i]
\* C14: the payments ledger is append-only: no step updates or removes an
\* existing payment row; in particular deleting an app leaves every payment
\* row, those that reference the deleted app's id included, unchanged.
C14_AppendOnly == [][LedgerKept]_vars
\* C14 witness: app 1 has just been deleted while the ledger holds a payment
\* row for app 1.
C14_Witness ==
  /\ resp.kind = "delete" /\ resp.status = 200
  /\ RowsWithId(apps, 1) = {}
  /\ \E i \in DOMAIN payments : payments[i].app_id = Int32(1)

CheckoutCarries ==
  rev = "s3" =>
    \A q \in CheckoutReqs :
       (q.fail = "none" /\ CheckoutS3(q)) =>
          IF RowsWithId(apps, q.appId) = {}
          THEN resp'.status = 404
          ELSE RowOf(apps, q.appId).price_cents >= 0 =>
                 /\ resp'.status = 200
                 /\ resp'.body.metadata = Meta(Digits(q.appId))
                 /\ resp'.body.unit_amount = RowOf(apps, q.appId).price_cents
\* C15: for every existing app the checkout session of a purchase request
\* carries the app's id as metadata and the app's stored price as the charge
\* amount, for every non-negative price, 0 included; for an absent app id the
\* request is answered 404 and no session is created.
C15_CheckoutCarries == [][CheckoutCarries]_vars

\* The fixed window of a download link, in seconds.
FiveMinutes == 5 * 60
DownloadAnswer(q) ==
  IF RowsWithId(apps, q.id) = {}
  THEN /\ resp'.status \in {404, 500}
       /\ q.fail = "none" => resp'.status = 404
  ELSE /\ resp'.status \in {200, 500}
       /\ q.fail = "none" => resp'.status = 200
       /\ resp'.status = 200 =>
            /\ resp'.body.url.signed
            /\ resp'.body.url.expiresIn <= FiveMinutes
            /\ S3Url(resp'.body.url.key) = RowOf(apps, q.id).archivo
DownloadLink ==
  \/ resp'.kind # "download"
  \/ rev = "s3" => \A q \in DownloadS3Reqs : DownloadS3(q) => DownloadAnswer(q)
\* C16: a download-link request for an app id that is absent or was deleted
\* is answered 404; for every existing app the answer is a signed URL to the
\* app's artifact that expires within five minutes, never an unsigned
\* permanent URL.
C16_DownloadLink == [][DownloadLink]_vars
\* C16 witness: a signed link has been answered for an app of a catalog from
\* which another app was deleted.
C16_Witness ==
  /\ resp.kind = "download" /\ resp.status = 200
  /\ resp.body.url.signed
  /\ RowsWithId(apps, resp.body.id) # {}
  /\ nextId > Len(apps) + 1

Ended == {"created", "exists", "conflict", "failed"}
\* C17: admin creation is idempotent: after any number of create-admin
\* requests, one after the other or overlapping, exactly one admin row
\* exists, and every request after the first is a no-op that reports success
\* rather than an error (answers lost to a failing database aside).
C17_AdminIdempotent ==
  rev = "p3" =>
    /\ Cardinality(Admins) <= 1
    /\ (\E i \in DOMAIN ca : ca[i] \in {"created", "exists"}) => Cardinality(Admins) = 1
    /\ \A i \in DOMAIN ca : ca[i] # "conflict"

OtherEventIgnored ==
  \A q \in WebhookReqs :
     (/\ Verified(q) /\ q.type # CheckoutCompleted
      /\ WebhookReceive(q)) =>
        /\ resp' = Delivered(q, 200, "ignored")
        /\ wh' = wh
        /\ payments' = payments /\ paymentsTable' = paymentsTable
        /\ UNCHANGED catalogVars
\* C18: a verified webhook whose event type is anything other than
\* checkout-completed is acknowledged with 200 {received: true} and causes
\* no write to the payments ledger or to the catalog.
C18_OtherEventIgnored == [][OtherEventIgnored]_vars
\* C18 witness: a payment_intent.succeeded event has been acknowledged while
\* the ledger already holds a row.
C18_Witness ==
  /\ resp.kind = "webhook" /\ resp.status = 200 /\ resp.why = "ignored"
  /\ resp.body.type # CheckoutCompleted
  /\ payments # <<>>

\* The steps of a delivery in the order the handler takes them.
Rank(pc) == CASE pc = "insert" -> 1 [] pc = "create" -> 2 [] pc = "retry" -> 3
WebhookAcks ==
  /\ (Answered /\ resp'.kind = "webhook" /\ Verified(resp'.body))
        => resp'.status = 200
  /\ \A f \in BagToSet(wh) :
        CopiesIn(f, wh') < CopiesIn(f, wh) =>
           \/ /\ wh' = Leave(f)
              /\ resp'.kind = "webhook" /\ resp'.status = 200
              /\ resp'.body.id = f.id
           \/ \E pc \in {"create", "retry"} :
                 Rank(pc) > Rank(f.pc) /\ wh' = Move(f, pc)
\* C19: once the signature verification of a webhook has succeeded, every
\* answer of the handler is the acknowledgement 200 {received: true}: each
\* database answer moves the delivery to a later step or ends it with that
\* acknowledgement, also when the ledger insert and its retry both fail; no
\* ledger failure becomes an error response or leaves the request unanswered.
C19_WebhookAcks == [][WebhookAcks]_vars
\* C19 witness: a delivery has been acknowledged after its insert and its
\* retry both failed, the payments table existing and the ledger empty.
C19_Witness ==
  /\ resp.kind = "webhook" /\ resp.status = 200 /\ resp.why = "logged"
  /\ paymentsTable /\ payments = <<>>

\* C20: in every reachable state every stored app price is a non-negative
\* integer (a create or update request with a negative or non-numeric price
\* is refused and stores nothing).
C20_PricesNonNegative ==
  rev = "s3" => \A i \in DOMAIN apps : apps[i].price_cents >= 0

\* What a login step must do: 200 and the user in the session for the
\* credentials of a stored user, 401 and the session as it was otherwise.
LoginOutcome(q) ==
  IF ValidLogin(q)
  THEN resp'.status = 200 /\ session' = q.username
  ELSE resp'.status = 401 /\ session' = session
\* Requests of the browser session to a route behind requireLogin.
AdminProbes == [cookie : {TRUE}, html : BOOLEAN]
SessionHeld ==
  /\ rev = "s3" => \A q \in SessionLoginReqs : LoginS3(q) => LoginOutcome(q)
  /\ rev = "B" =>
       \A q \in LoginBReqs : (q.fail = "none" /\ LoginB(q)) => LoginOutcome(q)
  /\ (session' # session /\ session' # NoUser) =>
        resp'.kind = "login" /\ resp'.status = 200
  /\ LogoutS3 => \A q \in AdminProbes : requireLogin(q)' # "next"
\* C21: a session holds a logged-in user only between a successful login in
\* that session and the next logout: a login with an unknown username or a
\* wrong password is answered 401 and leaves the session as it was, without a
\* user; after logout the session no longer passes the admin check.
C21_SessionHeld == [][SessionHeld]_vars

\* A create step whose first upload failed started nothing after it.
StoppedAtFirst(first) ==
  /\ resp'.ups = <<first>>
  /\ objects' = objects
  /\ apps' = apps
StepsInOrder ==
  \/ resp'.kind # "create"
  \/ /\ rev = "s3" =>
          \A q \in CreateS3Reqs :
             /\ (/\ Authed(q) /\ Present(q.archivo) /\ q.fail = "archivo"
                 /\ CreateS3(q)) => StoppedAtFirst("archivo")
             /\ (UploadFailsS3(q) /\ CreateS3(q)) => apps' = apps
     /\ rev = "p3" =>
          \A q \in CreateP3Reqs :
             /\ (/\ Present(q.image) /\ q.fail \in {"image", "both"}
                 /\ CreateP3(q)) => StoppedAtFirst("image")
             /\ (UploadFailsP3(q) /\ CreateP3(q)) => apps' = apps
\* C22: within one create request the steps run strictly in order: the
\* second upload does not start before the first has completed successfully,
\* and the catalog insert does not start before every upload of the request
\* has completed successfully.
C22_StepsInOrder == [][StepsInOrder]_vars

\* C23: every successful create request stores its artifact under a fresh
\* object-store key, also when two requests carry files of one original name
\* at one time: no two app rows share an artifact reference (no upload
\* overwrites another app's object).
C23_FreshKeys ==
  rev = "s3" =>
    \A i, j \in DOMAIN apps : i # j => apps[i].archivo # apps[j].archivo

RowRemoved(id) ==
  /\ resp'.status = 200
  /\ apps' = WithoutId(apps, id)
  /\ RowsWithId(apps', id) = {}
DeleteRemoves ==
  \/ resp'.kind # "delete"
  \/ /\ rev = "A" =>
          \A q \in DeleteAReqs :
             (/\ q.fail \in {"none", "destroy"} /\ RowsWithId(apps, q.id) # {}
              /\ DeleteA(q)) => RowRemoved(q.id)
     /\ rev = "B" =>
          \A q \in DeleteBReqs :
             (/\ q.fail \in {"none", "destroy"} /\ RowsWithId(apps, q.id) # {}
              /\ DeleteB(q)) => RowRemoved(q.id)
FailsAfterArtifact(q) ==
  /\ Authed(q) /\ Present(q.archivo) /\ q.fail # "archivo"
  /\ \/ q.fail = "imagen" /\ Present(q.imagen)
     \/ q.fail = "db"
     \/ ParseInt(PriceText(q.price_cents)) = NaN
Orphaned(key) ==
  /\ resp'.status = 500
  /\ key \in objects' /\ objects \subseteq objects'
  /\ apps' = apps
  /\ \A i \in DOMAIN apps' : apps'[i].archivo # S3Url(key)
ObjectsOrphaned ==
  \/ resp'.kind # "create"
  \/ rev = "s3" =>
       \A q \in CreateS3Reqs :
          (FailsAfterArtifact(q) /\ CreateS3(q)) =>
             Orphaned(S3Key("apps", clock, q.archivo))
\* C25: when a step of a create request fails after an earlier upload
\* succeeded, the object already stored is left in the object store: no
\* compensating delete is issued, and no catalog row references it.
C25_ObjectsOrphaned == [][ObjectsOrphaned]_vars

\* A delivery whose session names no app: no metadata, no appId in it, or an
\* appId that is no number.
Unresolvable(f) ==
  \/ ~f.metadata.has
  \/ f.metadata.appId \in {NoNum, TextNum}
Recorded(f) ==
  /\ Len(payments') = Len(payments) + 1
  /\ payments'[Len(payments')].session_id = f.id
  /\ payments'[Len(payments')].app_id = NullNum
  /\ resp'.kind = "webhook" /\ resp'.status = 200
UnresolvedRecorded ==
  \A f \in BagToSet(wh) :
     Unresolvable(f) =>
        /\ (paymentsTable /\ WebhookInsert(f, TRUE)) => Recorded(f)
        /\ WebhookRetry(f, TRUE) => Recorded(f)
\* C26: a verified checkout-completed webhook whose session carries no
\* metadata, or no resolvable app id, is still recorded: when the database
\* answers its insert, exactly one payment row with a null app id is appended
\* for its session id, and the webhook is acknowledged.
C26_UnresolvedRecorded == [][UnresolvedRecorded]_vars


\* C27: after any interleaving of POST /api/ratings requests the ratings
\* table holds at most one row per (user_id, app_id) pair, and a later rating
\* of the same pair replaces the stored one: no rating request is turned away
\* because its pair is already stored.
PairsUnique ==
  \A i, j \in DOMAIN ratings :
    (ratings[i].user_id = ratings[j].user_id
       /\ ratings[i].app_id = ratings[j].app_id) => i = j
NoneTurnedAway ==
  \A i \in DOMAIN rq : rq[i].kind = "rating" => rq[i].pc # "failed"
C27_OneRowPerPair == rev = "v2" => PairsUnique /\ NoneTurnedAway

\* C28: whenever no rating or review request is in flight, the stored rating
\* of every app that has rating rows is the rounded average of those rows.
RatedApps ==
  {apps[i].id : i \in {k \in DOMAIN apps : OfApp(ratings, apps[k].id) # <<>>}}
AverageStored ==
  \A id \in RatedApps : appRating[id] = RoundedAvg(OfApp(ratings, id))
C28_AverageStored == (rev = "v2" /\ RatingsInFlight = {}) => AverageStored
\* the same with no review posted: only rating requests have written
C28_RatingsOnly ==
  (rev = "v2" /\ RatingsInFlight = {} /\ reviews = <<>>) => AverageStored


\* C29: after any interleaving of category-creation requests no two category
\* rows have the same name; of the answered requests for a name exactly one
\* was answered 201 with the created row and every other one 409, the rows
\* stored are those of the requests answered 201, and a request with an
\* empty or blank name is answered 400.
NamesUnique ==
  \A i, j \in DOMAIN categories :
    categories[i].name = categories[j].name => i = j
Created(name) ==
  {i \in DOMAIN cq : cq[i].pc = "created" /\ Trim(cq[i].name.s) = name}
OneCreated ==
  /\ \A k \in DOMAIN categories : Cardinality(Created(categories[k].name)) = 1
  /\ \A i \in DOMAIN cq :
       cq[i].pc \in {"created", "conflict"} =>
         \E k \in DOMAIN categories : categories[k].name = Trim(cq[i].name.s)
  /\ Len(categories) = Cardinality({i \in DOMAIN cq : cq[i].pc = "created"})
BlankRefused ==
  \A i \in DOMAIN cq :
    (cq[i].name.t = "text" /\ Trim(cq[i].name.s) = <<>>) => cq[i].pc = "refused"
CategoryOutcome ==
  \/ resp.kind # "category"
  \/ resp.status = 500
  \/ /\ resp.status = 201
     /\ resp.body = categories[Len(categories)]
  \/ /\ resp.status \in {400, 409}
     /\ resp.body = NoBody
C29_CategoriesUnique ==
  rev = "A" => NamesUnique /\ OneCreated /\ BlankRefused /\ CategoryOutcome
C29_Witness ==
  /\ rev = "A"
  /\ Len(cq) = 3
  /\ cq[1].pc = "conflict" /\ cq[2].pc = "created" /\ cq[3].pc = "refused"
  /\ cq[1].name # cq[2].name
  /\ Len(categories) = 1


\* C30: every temporary file written to ./uploads for a create or update
\* request is removed by the time the request has been answered, whatever
\* the answer: no answered request leaves a file behind.
C30_TempFilesRemoved == tmp = {}
\* the same for the answers that follow the uploads: success and a failed
\* catalog write
AfterUploads ==
  /\ resp.kind \in {"create", "update"}
  /\ resp.why \in {"ok", "db"}
  /\ resp.ups # <<>>
C30_RemovedAfterUploads == (rev \in {"A", "B", "v2"} /\ AfterUploads) => tmp = {}

====
